---- MODULE Spec2Model ----
(***************************************************************************)
(* The SMS webhook proxy (smsgap): subscriber registry with its pruner,    *)
(* allowlist manager, dedup cache and the ingress webhook handler with its *)
(* fan-out to the registered clients.                                      *)
(*                                                                         *)
(* Time is the value time.Now() returns, in seconds.  The clock advances   *)
(* in steps of TimeStep; a step that reaches an instant at which the       *)
(* pruner's ticker fires is the pruner's loop iteration (PrunerTick).      *)
(***************************************************************************)
EXTENDS Integers, Sequences, FiniteSets, TLC

VARIABLES
    now,        \* time.Now(), seconds since the process started
    clients,    \* ClientManager.clients: id -> Client
    nextPrune,  \* instant of the next tick of the pruner's ticker
    numbers,    \* AllowlistManager.numbers: phone_number -> ring (the mirror)
    db,         \* table allowed_numbers of the durable store
    seen,       \* MessageCache.seen: dedup key -> first seen time
    handler,    \* one record per ingress request: the handler goroutine
    lastRegister, \* history: id -> the latest Register call (request, time)
    api,        \* the latest answered Admin API request and its answer
    webhooks,   \* the gateway's webhook registrations: set of Webhook
    repair,     \* the gateway calls of the latest reconciler tick
    sup,        \* the supervisor (main): where it is, and what it did
    gatewayUp,  \* the gateway answers requests
    nextSweep,  \* instant of the next tick of the dedup sweeper
    cm,         \* the ClientManager's mutex, pruner goroutine and Stop call
    amu         \* the AllowlistManager's mutex and who holds it

vars == <<now, clients, nextPrune, numbers, db, seen, handler, lastRegister,
          api, webhooks, repair, sup, gatewayUp, nextSweep, cm, amu>>

(* ------------------------------ constants ------------------------------ *)

MaxAttempts == 3
PruneTTL == 60
PrunePeriod == 10
StatusOK == 200
StatusBadRequest == 400
StatusForbidden == 403
StatusInternalServerError == 500
StatusServiceUnavailable == 503
MaxIDLen == 128
HealthCheckRetry == 10
ProbeInterval == 1
ProbeTimeout == 2
SweepTTL == 300
SweepPeriod == 60

(* ------------------------------- bounds -------------------------------- *)

\* The clock runs for MaxSteps steps of TimeStep seconds; the pruning
\* specification registers clients during the first MaxRegisterSteps steps.
MaxSteps == 16
MaxRegisterSteps == 2

\* The gateway holds at most MaxWebhooks registrations when somebody other
\* than the proxy adds one.
MaxWebhooks == 2
MaxCalls == 3
MaxDedupSteps == 6

TimeStep == PrunePeriod \div 2

Requests == {1, 2}

EventTypes == {"received", "sent", "delivered", "failed"}
Rings == {"prod", "ppe"}
ClientIDs == {"A", "B"}
Phones == {"+15551112222", "+15553334444"}

\* What a subscriber may answer to one POST: a status code, or no answer at
\* all (http.Post returns an error).
Response(err, code) == [err |-> err, StatusCode |-> code]
Responses == {Response(TRUE, 0), Response(FALSE, 200), Response(FALSE, 204),
              Response(FALSE, 500)}

Empty == [x \in {} |-> x]

(* ------------------------------ registry ------------------------------- *)

\* RegisterRequest as decoded by POST /register, after validation.
RegisterRequest(id, url, ring, kinds) ==
    [ID |-> id, WebhookURL |-> url, Ring |-> ring,
     SmsReceived |-> "received" \in kinds, SmsSent |-> "sent" \in kinds,
     SmsDelivered |-> "delivered" \in kinds, SmsFailed |-> "failed" \in kinds]

\* The Client the /register route builds from the request.
NewClient(req) ==
    [ID |-> req.ID, WebhookURL |-> req.WebhookURL, Ring |-> req.Ring,
     SmsReceived |-> req.SmsReceived, SmsSent |-> req.SmsSent,
     SmsDelivered |-> req.SmsDelivered, SmsFailed |-> req.SmsFailed,
     RegisteredAt |-> 0, LastSeen |-> 0]

\* ClientManager.Register: the map after Register(id, client) at time t.
RegisterResetsRegisteredAt(cs, id, client, t) ==
    LET c == [client EXCEPT !.LastSeen = t, !.RegisteredAt = t]
    IN  [i \in DOMAIN cs \cup {id} |-> IF i = id THEN c ELSE cs[i]]

Registered(cs, id, client, t) ==
    LET c == IF id \in DOMAIN cs
             THEN [client EXCEPT !.LastSeen = t,
                                 !.RegisteredAt = cs[id].RegisteredAt]
             ELSE [client EXCEPT !.LastSeen = t, !.RegisteredAt = t]
    IN  [i \in DOMAIN cs \cup {id} |-> IF i = id THEN c ELSE cs[i]]

\* ClientManager.List: a copy of the map (the Client values are shared, and
\* Register never writes to a Client that is already in the map).
ListAll(cs) == cs

PrunedInclusive(cs, t) ==
    [i \in {j \in DOMAIN cs : cs[j].LastSeen > t - PruneTTL} |-> cs[i]]

\* ClientManager.prune at time t: delete every client whose LastSeen is
\* before t - 60 s.
PrunedNothing(cs, t) == cs

PrunedLate(cs, t) ==
    [i \in {j \in DOMAIN cs : ~(cs[j].LastSeen < t - (PruneTTL + PrunePeriod + PrunePeriod))}
        |-> cs[i]]

Pruned(cs, t) ==
    [i \in {j \in DOMAIN cs : ~(cs[j].LastSeen < t - PruneTTL)} |-> cs[i]]

(* ------------------------------ allowlist ------------------------------ *)

AddedNumberMirrorsFailure(nums, store, phoneNumber, ring, dbFails) ==
    IF phoneNumber \in DOMAIN nums
    THEN [err |-> "already assigned", numbers |-> nums, db |-> store]
    ELSE [err |-> IF dbFails \/ phoneNumber \in DOMAIN store THEN "store" ELSE "",
          numbers |-> [n \in DOMAIN nums \cup {phoneNumber} |->
                         IF n = phoneNumber THEN ring ELSE nums[n]],
          db |-> IF dbFails THEN store
                 ELSE [n \in DOMAIN store \cup {phoneNumber} |->
                         IF n = phoneNumber THEN ring ELSE store[n]]]

AddedNumberOverwrites(nums, store, phoneNumber, ring, dbFails) ==
    IF dbFails
    THEN [err |-> "store", numbers |-> nums, db |-> store]
    ELSE [err |-> "",
          numbers |-> [n \in DOMAIN nums \cup {phoneNumber} |->
                         IF n = phoneNumber THEN ring ELSE nums[n]],
          db |-> [n \in DOMAIN store \cup {phoneNumber} |->
                         IF n = phoneNumber THEN ring ELSE store[n]]]

\* AllowlistManager.AddNumber(phoneNumber, ring) on mirror nums and table
\* store: the error it returns, and the mirror and the table it leaves.
\* dbFails: the INSERT returns an error (it also does on a primary key that
\* is already in the table).
AddedNumber(nums, store, phoneNumber, ring, dbFails) ==
    IF phoneNumber \in DOMAIN nums
    THEN [err |-> "already assigned", numbers |-> nums, db |-> store]
    ELSE IF dbFails \/ phoneNumber \in DOMAIN store
         THEN [err |-> "store", numbers |-> nums, db |-> store]
         ELSE [err |-> "",
               numbers |-> [n \in DOMAIN nums \cup {phoneNumber} |->
                              IF n = phoneNumber THEN ring ELSE nums[n]],
               db |-> [n \in DOMAIN store \cup {phoneNumber} |->
                              IF n = phoneNumber THEN ring ELSE store[n]]]

RemovedNumberMirrorFirst(nums, store, phoneNumber, dbFails) ==
    [err |-> IF dbFails THEN "store" ELSE "",
     numbers |-> [n \in DOMAIN nums \ {phoneNumber} |-> nums[n]],
     db |-> IF dbFails THEN store
            ELSE [n \in DOMAIN store \ {phoneNumber} |-> store[n]]]

RemovedNumberStrict(nums, store, phoneNumber, dbFails) ==
    IF dbFails \/ phoneNumber \notin DOMAIN store
    THEN [err |-> "store", numbers |-> nums, db |-> store]
    ELSE [err |-> "",
          numbers |-> [n \in DOMAIN nums \ {phoneNumber} |-> nums[n]],
          db |-> [n \in DOMAIN store \ {phoneNumber} |-> store[n]]]

\* AllowlistManager.RemoveNumber(phoneNumber); dbFails: the DELETE returns
\* an error.  A DELETE that matches no row succeeds.
RemovedNumber(nums, store, phoneNumber, dbFails) ==
    IF dbFails
    THEN [err |-> "store", numbers |-> nums, db |-> store]
    ELSE [err |-> "",
          numbers |-> [n \in DOMAIN nums \ {phoneNumber} |-> nums[n]],
          db |-> [n \in DOMAIN store \ {phoneNumber} |-> store[n]]]

\* AllowlistManager.loadNumbers on table store: the error it returns and the
\* mirror it leaves.  It makes a new map and sets one entry per row of the
\* SELECT.  loadFails: the query or a scan returns an error.
LoadedNumbers(nums, store, loadFails) ==
    IF loadFails
    THEN [err |-> "store", numbers |-> nums]
    ELSE [err |-> "",
          numbers |-> [n \in DOMAIN store |-> store[n]]]

\* AllowlistManager.GetRing: the ring, or "" when the number is not allowed.
GetRingDefaultsProd(nums, phoneNumber) ==
    IF phoneNumber \in DOMAIN nums THEN nums[phoneNumber] ELSE "prod"

GetRing(nums, phoneNumber) ==
    IF phoneNumber \in DOMAIN nums THEN nums[phoneNumber] ELSE ""

(* ----------------------------- dedup cache ----------------------------- *)

\* The dedup key the handler builds: eventType + "-" + messageID.
DedupKeyIgnoresKind(eventType, messageID) == messageID

DedupKey(eventType, messageID) == eventType \o "-" \o messageID

IsSeenAndMarkRefreshes(cache, key, t) ==
    [seen |-> key \in DOMAIN cache,
     cache |-> [k \in DOMAIN cache \cup {key} |->
                   IF k = key THEN t ELSE cache[k]]]

\* MessageCache.IsSeenAndMark: the result and the cache afterwards.
IsSeenAndMarkNoMark(cache, key, t) ==
    [seen |-> key \in DOMAIN cache, cache |-> cache]

IsSeenAndMark(cache, key, t) ==
    IF key \in DOMAIN cache
    THEN [seen |-> TRUE, cache |-> cache]
    ELSE [seen |-> FALSE,
          cache |-> [k \in DOMAIN cache \cup {key} |->
                        IF k = key THEN t ELSE cache[k]]]

CleanedUpInclusive(cache, ttl, t) ==
    [k \in {j \in DOMAIN cache : cache[j] > t - ttl} |-> cache[k]]

CleanedUpNothing(cache, ttl, t) == cache

\* MessageCache.Cleanup(ttl) at time t.
CleanedUp(cache, ttl, t) ==
    [k \in {j \in DOMAIN cache : ~(cache[j] < t - ttl)} |-> cache[k]]

(* ------------------------------- fan-out ------------------------------- *)

\* The subscription flag of a client for an event type (the switch of
\* FilterByEvent; an unknown event type leaves subscribed false).
Subscribed(client, eventType) ==
    CASE eventType = "received"  -> client.SmsReceived
      [] eventType = "sent"      -> client.SmsSent
      [] eventType = "delivered" -> client.SmsDelivered
      [] eventType = "failed"    -> client.SmsFailed
      [] OTHER                   -> FALSE

FilterByEvent(cs, eventType) ==
    {i \in DOMAIN cs : Subscribed(cs[i], eventType)}

\* The ring filter of the handler.
RingFilteredAll(cs, filtered, targetRing) == filtered

RingFiltered(cs, filtered, targetRing) ==
    {i \in filtered : cs[i].Ring = targetRing}

\* An attempt succeeds iff it got an answer with a 2xx status.
IsSuccess(resp) == ~resp.err /\ resp.StatusCode >= 200 /\ resp.StatusCode < 300

\* The forwarder goroutine of a client has left its retry loop.
ForwarderDoneNoBreak(posts) == Len(posts) >= MaxAttempts

ForwarderDoneOffByOne(posts) ==
    \/ Len(posts) > MaxAttempts
    \/ Len(posts) > 0 /\ posts[Len(posts)].ok

ForwarderDone(posts) ==
    \/ Len(posts) >= MaxAttempts
    \/ Len(posts) > 0 /\ posts[Len(posts)].ok

(* --------------------------- ingress requests -------------------------- *)

\* The bytes of an ingress request, by what the handler's two json.Unmarshal
\* calls make of them: json is false for bytes that are no JSON envelope,
\* typed is false for a payload whose fields do not fit the payload struct;
\* a field the payload lacks is left "" by the decoder.
Body(json, typed, messageId, phoneNumber) ==
    [json |-> json, typed |-> typed, messageId |-> messageId,
     phoneNumber |-> phoneNumber]

NoBody == Body(FALSE, FALSE, "", "")

ParseBodyStrict(body) ==
    IF ~body.json \/ ~body.typed \/ body.messageId = "" \/ body.phoneNumber = ""
    THEN [err |-> TRUE, MessageID |-> "", PhoneNumber |-> ""]
    ELSE [err |-> FALSE, MessageID |-> body.messageId,
          PhoneNumber |-> body.phoneNumber]

\* The handler's parse of the body: err, or the payload's MessageID and
\* PhoneNumber.
ParseBody(body) ==
    IF ~body.json \/ ~body.typed
    THEN [err |-> TRUE, MessageID |-> "", PhoneNumber |-> ""]
    ELSE [err |-> FALSE, MessageID |-> body.messageId,
          PhoneNumber |-> body.phoneNumber]

Idle ==
    [pc |-> "idle", eventType |-> "", body |-> NoBody, messageID |-> "",
     phoneNumber |-> "", status |-> 0, delivered |-> FALSE, duplicate |-> FALSE,
     clients |-> Empty, targetRing |-> "", targets |-> {},
     posts |-> Empty]

\* The handler returns: net/http flushes the buffered response to the
\* gateway when the handler function returns.
Returned(hr) == [hr EXCEPT !.pc = "done", !.delivered = TRUE]

\* No Admin API request was answered yet.
NoRequest == [route |-> "", status |-> 0]

\* No reconciler tick ran yet.
NoRepair ==
    [ran |-> FALSE, listed |-> FALSE, deleteCalls |-> {}, registerCalls |-> {},
     failed |-> FALSE]

\* The supervisor before its first health probe: pc is the place in main,
\* elapsed the seconds since startTime, healthy says that a probe succeeded
\* and healthyAt when, setup the outcome of SetupWebhooks, ticker and
\* pruner say whether the auto-repair and the pruner goroutines run,
\* listeners which HTTP servers listen, log the shutdown steps done so far,
\* errors the shutdown steps whose error was logged, and deleted and
\* registered the ids and events of the calls of SetupWebhooks that succeeded.
Booting ==
    [pc |-> "probe", elapsed |-> 0, healthy |-> FALSE, healthyAt |-> 0,
     setup |-> "none",
     ticker |-> FALSE, pruner |-> FALSE, listeners |-> {}, log |-> <<>>,
     errors |-> {}, deleted |-> {}, registered |-> {}]

\* The supervisor blocked on <-sigChan: the daemon runs.
Started ==
    [Booting EXCEPT !.pc = "running", !.healthy = TRUE, !.setup = "ok",
                    !.ticker = TRUE,
                    !.pruner = TRUE, !.listeners = {"api", "webhook"}]

\* The ClientManager after StartPruning: mu says who holds the mutex,
\* pruner where the pruner goroutine is (in its select, in prune, or gone),
\* stopChan whether Stop closed it, stop where the Stop call is,
\* req the request of the Register call that holds the mutex, and at
\* what the goroutine and the mutex were doing when Stop was called.
Pruning ==
    [mu |-> "", pruner |-> "select", stopChan |-> "open", stop |-> "none",
     req |-> <<>>, at |-> <<>>]

\* The AllowlistManager's mutex is free: holder says which call holds the
\* write lock, for which number and ring, and exec that its db.Exec runs.
Unlocked == [holder |-> "", phoneNumber |-> "", ring |-> "", exec |-> FALSE]

(* ------------------------------ Admin API ------------------------------ *)

\* The -private-ip flag of this instance.
PrivateIP == "10.0.0.5"

\* The local address of a connection as the middleware finds it in the
\* request context: tcp says that it is a *net.TCPAddr, ip is its IP.String().
LocalAddr(tcp, ip) == [tcp |-> tcp, ip |-> ip]

\* PrivateIPOnlyMiddleware: TRUE when the request is passed on to the route,
\* FALSE when it is answered 403.
PrivateIPOnlyMiddlewareOpen(privateIP, addr) == TRUE

PrivateIPOnlyMiddleware(privateIP, addr) ==
    ~(addr.tcp /\ addr.ip # privateIP)

\* len(id) for the ids of the model.
LongID == "an id of 129 bytes"

ByteLen(id) ==
    CASE id = "" -> 0
      [] id = LongID -> MaxIDLen + 1
      [] OTHER -> 1

\* The shape of the numbers of the model: a leading "+", the count of the
\* digits, and whether any other character occurs.
PhoneShape(number) ==
    CASE number = "+15551112222" -> [plus |-> TRUE, digits |-> 11, other |-> FALSE]
      [] number = "+15553334444" -> [plus |-> TRUE, digits |-> 11, other |-> FALSE]
      [] number = "5551112222" -> [plus |-> FALSE, digits |-> 10, other |-> FALSE]
      [] number = "12345" -> [plus |-> FALSE, digits |-> 5, other |-> FALSE]
      [] number = "+1555abc2222" -> [plus |-> TRUE, digits |-> 8, other |-> TRUE]
      [] OTHER -> [plus |-> FALSE, digits |-> 0, other |-> FALSE]

\* phoneNumberRegex.MatchString(number) for ^\+?\d{10,14}$
PhoneNumberRegexAny(number) == TRUE

PhoneNumberRegex(number) ==
    LET shape == PhoneShape(number)
    IN  ~shape.other /\ shape.digits >= 10 /\ shape.digits <= 14

\* The body of a POST /register: json says that it decodes into a
\* RegisterRequest, req is the decoded request.
RegisterBody(json, req) == [json |-> json, req |-> req]

\* The validation of POST /register: the status it answers before the
\* client is registered, or 0 when the request is valid.
RegisterRejectedNever(body) == 0

RegisterRejected(body) ==
    IF ~body.json THEN StatusBadRequest
    ELSE IF ByteLen(body.req.ID) = 0 \/ ByteLen(body.req.ID) > MaxIDLen
         THEN StatusBadRequest
    ELSE IF body.req.WebhookURL = "" THEN StatusBadRequest
    ELSE IF body.req.Ring = "" THEN StatusBadRequest
    ELSE IF body.req.Ring # "prod" /\ body.req.Ring # "ppe"
         THEN StatusBadRequest
    ELSE 0

\* The validation of POST /allowlist?number=..&ring=..: the status it
\* answers before AddNumber is called, or 0 when the query is valid.
AllowlistRejected(number, ring) ==
    IF number = "" THEN StatusBadRequest
    ELSE IF ring = "" THEN StatusBadRequest
    ELSE IF ring # "prod" /\ ring # "ppe" THEN StatusBadRequest
    ELSE IF ~PhoneNumberRegex(number) THEN StatusBadRequest
    ELSE 0

\* An answered Admin API request: the route, the connection's local address,
\* what the request carried, whether the store failed, and the status.
Answered(route, addr, req, dbFails, status) ==
    [route |-> route, addr |-> addr, req |-> req, dbFails |-> dbFails,
     status |-> status]

(* ----------------------------- reconciler ------------------------------ *)

\* The port of the ingress listener, as main prints it into webhookPort.
WebhookPort == "8081"

\* The events RepairWebhooks and SetupWebhooks register, in their order.
WebhookEvents == <<"sms:received", "sms:sent", "sms:delivered", "sms:failed">>

\* len(event) of the event names a gateway lists here.
EventLen(event) ==
    CASE event = "sms:received" -> 12
      [] event = "sms:sent" -> 8
      [] event = "sms:delivered" -> 13
      [] event = "sms:failed" -> 10
      [] event = "system:ping" -> 11
      [] event = "sms" -> 3
      [] event = "" -> 0

\* event[4:] panics (slice bounds out of range) on a shorter string.
SlicePanics(event) == EventLen(event) < 4

\* event[4:], the event without its "sms:" prefix.
\* It is defined where the slice expression does not panic.
EventPath(event) ==
    CASE event = "sms:received" -> "received"
      [] event = "sms:sent" -> "sent"
      [] event = "sms:delivered" -> "delivered"
      [] event = "sms:failed" -> "failed"
      [] event = "system:ping" -> "em:ping"

\* fmt.Sprintf("http://127.0.0.1:%s/webhook/%s", webhookPort, eventPath)
ExpectedURL(event) ==
    "http://127.0.0.1:" \o WebhookPort \o "/webhook/" \o EventPath(event)

\* A registration as the gateway lists it.
Webhook(id, event, url) == [ID |-> id, Event |-> event, URL |-> url]

\* POST /webhooks on the gateway: the gateway stores the registration under
\* an id of its own choice that no registration has (here the least one).
GatewayRegister(hooks, event, url) ==
    LET used == {w.ID : w \in hooks}
        id == CHOOSE i \in 1..(Cardinality(hooks) + 1) : i \notin used
    IN  hooks \cup {Webhook(id, event, url)}

\* DELETE /webhooks/<id> on the gateway.
GatewayDelete(hooks, id) == {w \in hooks : w.ID # id}

\* The first loop of RepairWebhooks: the events of the listed registrations
\* whose URL is the expected one.
ExistingWebhooks(listed) ==
    {w.Event : w \in {x \in listed : x.URL = ExpectedURL(x.Event)}}

\* The first loop of RepairWebhooks: the listed registrations it deletes.
WrongURLNone(listed) == {}

WrongURL(listed) == {w \in listed : w.URL # ExpectedURL(w.Event)}

\* The second loop of RepairWebhooks from its i-th event on: it registers
\* each event that is not in existing; the calls for regFails return an error.
RECURSIVE Repaired(_, _, _, _)
Repaired(hooks, existing, regFails, i) ==
    IF i > Len(WebhookEvents)
    THEN hooks
    ELSE LET event == WebhookEvents[i]
         IN  IF event \in existing \/ event \in regFails
             THEN Repaired(hooks, existing, regFails, i + 1)
             ELSE Repaired(GatewayRegister(hooks, event, ExpectedURL(event)),
                           existing, regFails, i + 1)

(* ------------------------------ supervisor ----------------------------- *)

\* GET /health: the status for the outcome of smsClient.CheckHealth().
HealthStatusAlwaysOK(err) == StatusOK

HealthStatus(err) == IF err THEN StatusServiceUnavailable ELSE StatusOK

\* The greatest id among the registrations, 0 when there is none.
MaxID(hooks) ==
    IF hooks = {} THEN 0
    ELSE CHOOSE m \in {w.ID : w \in hooks} : \A w \in hooks : w.ID <= m

RECURSIVE SetupDeletedWrongOnly(_, _, _)
SetupDeletedWrongOnly(hooks, delFails, i) ==
    IF i > MaxID(hooks)
    THEN [err |-> FALSE, hooks |-> hooks]
    ELSE IF i \notin {w.ID : w \in WrongURL(hooks)}
         THEN SetupDeletedWrongOnly(hooks, delFails, i + 1)
    ELSE IF i \in delFails
         THEN [err |-> TRUE, hooks |-> hooks]
    ELSE SetupDeletedWrongOnly(GatewayDelete(hooks, i), delFails, i + 1)

\* The first loop of SetupWebhooks from id i on: it deletes every listed
\* registration and returns at the first DeleteWebhook that fails.
RECURSIVE SetupDeleted(_, _, _)
SetupDeleted(hooks, delFails, i) ==
    IF i > MaxID(hooks)
    THEN [err |-> FALSE, hooks |-> hooks]
    ELSE IF i \notin {w.ID : w \in hooks}
         THEN SetupDeleted(hooks, delFails, i + 1)
    ELSE IF i \in delFails
         THEN [err |-> TRUE, hooks |-> hooks]
    ELSE SetupDeleted(GatewayDelete(hooks, i), delFails, i + 1)

\* The second loop of SetupWebhooks from its i-th event on: it registers
\* every event and returns at the first RegisterWebhook that fails.
RECURSIVE SetupRegistered(_, _, _)
SetupRegistered(hooks, regFails, i) ==
    IF i > Len(WebhookEvents)
    THEN [err |-> FALSE, hooks |-> hooks]
    ELSE IF WebhookEvents[i] \in regFails
         THEN [err |-> TRUE, hooks |-> hooks]
    ELSE SetupRegistered(GatewayRegister(hooks, WebhookEvents[i],
                                         ExpectedURL(WebhookEvents[i])),
                         regFails, i + 1)

\* SetupWebhooks: whether it returns an error, and the gateway afterwards.
SetupResult(hooks, listFails, delFails, regFails) ==
    IF listFails
    THEN [err |-> TRUE, hooks |-> hooks]
    ELSE LET d == SetupDeleted(hooks, delFails, 1)
         IN  IF d.err THEN d ELSE SetupRegistered(d.hooks, regFails, 1)

\* CleanupWebhooks: it returns an error when the list fails; a failed
\* DeleteWebhook is logged and the loop goes on.
CleanupResult(hooks, listFails, delFails) ==
    IF listFails
    THEN [err |-> TRUE, hooks |-> hooks]
    ELSE [err |-> FALSE, hooks |-> {w \in hooks : w.ID \in delFails}]

\* The steps of main after <-sigChan, in their order.
ShutdownOrderCleanupFirst ==
    <<"stopAutoRepair", "stopPruner", "cleanup", "shutdownAPI",
      "shutdownWebhook">>

ShutdownOrder ==
    <<"stopAutoRepair", "stopPruner", "shutdownAPI", "shutdownWebhook",
      "cleanup">>

(* -------------------------------- Init --------------------------------- *)

Init ==
    /\ now = 0
    /\ clients = Empty
    /\ nextPrune = PrunePeriod
    /\ numbers = Empty
    /\ db = Empty
    /\ seen = Empty
    /\ handler = [h \in Requests |-> Idle]
    /\ lastRegister = Empty
    /\ api = NoRequest
    /\ webhooks = {}
    /\ repair = NoRepair
    /\ sup = Started
    /\ gatewayUp = TRUE
    /\ nextSweep = SweepPeriod
    /\ cm = Pruning
    /\ amu = Unlocked

(* ------------------------------- actions ------------------------------- *)

\* POST /register with a valid request: ClientManager.Register.
Register(req) ==
    /\ clients' = Registered(clients, req.ID, NewClient(req), now)
    /\ lastRegister' = [i \in DOMAIN lastRegister \cup {req.ID} |->
          IF i = req.ID THEN [req |-> req, at |-> now] ELSE lastRegister[i]]
    /\ UNCHANGED <<now, nextPrune, numbers, db, seen, handler, api, webhooks,
                   repair, sup, gatewayUp, nextSweep, cm, amu>>

\* Time passes without a tick of the pruner's ticker.
AdvanceTime(horizon) ==
    /\ now + TimeStep <= horizon
    /\ now + TimeStep < nextPrune
    /\ now' = now + TimeStep
    /\ UNCHANGED <<clients, nextPrune, numbers, db, seen, handler,
                   lastRegister, api, webhooks, repair, sup, gatewayUp,
                   nextSweep, cm, amu>>

\* The pruner goroutine: the ticker fires and prune() runs.
PrunerTick(horizon) ==
    /\ now + TimeStep <= horizon
    /\ now + TimeStep >= nextPrune
    /\ now' = now + TimeStep
    /\ clients' = Pruned(clients, now')
    /\ nextPrune' = nextPrune + PrunePeriod
    /\ UNCHANGED <<numbers, db, seen, handler, lastRegister, api, webhooks,
                   repair, sup, gatewayUp, nextSweep, cm, amu>>

\* AllowlistManager.AddNumber; dbFails: the INSERT returns an error.
AddNumber(phoneNumber, ring, dbFails) ==
    /\ LET r == AddedNumber(numbers, db, phoneNumber, ring, dbFails)
       IN  numbers' = r.numbers /\ db' = r.db
    /\ UNCHANGED <<now, clients, nextPrune, seen, handler, lastRegister, api,
                   webhooks, repair, sup, gatewayUp, nextSweep, cm, amu>>

\* AllowlistManager.RemoveNumber; dbFails: the DELETE returns an error.
RemoveNumber(phoneNumber, dbFails) ==
    /\ LET r == RemovedNumber(numbers, db, phoneNumber, dbFails)
       IN  numbers' = r.numbers /\ db' = r.db
    /\ UNCHANGED <<now, clients, nextPrune, seen, handler, lastRegister, api,
                   webhooks, repair, sup, gatewayUp, nextSweep, cm, amu>>

\* AddNumber takes the write lock, finds the number absent from the mirror
\* and calls db.Exec with the INSERT.  (On a number that is in the mirror it
\* returns an error at once and changes nothing.)
AddNumberBegin(phoneNumber, ring) ==
    /\ amu.holder = ""
    /\ phoneNumber \notin DOMAIN numbers
    /\ amu' = [holder |-> "AddNumber", phoneNumber |-> phoneNumber,
               ring |-> ring, exec |-> TRUE]
    /\ UNCHANGED <<now, clients, nextPrune, seen, handler, lastRegister, api,
                   webhooks, repair, sup, gatewayUp, nextSweep, cm, numbers, db>>

\* db.Exec returns; AddNumber updates the mirror when the INSERT succeeded,
\* and its deferred Unlock runs.
AddNumberEnd(dbFails) ==
    /\ amu.holder = "AddNumber"
    /\ LET r == AddedNumber(numbers, db, amu.phoneNumber, amu.ring, dbFails)
       IN  numbers' = r.numbers /\ db' = r.db
    /\ amu' = Unlocked
    /\ UNCHANGED <<now, clients, nextPrune, seen, handler, lastRegister, api,
                   webhooks, repair, sup, gatewayUp, nextSweep, cm>>

\* RemoveNumber takes the write lock and calls db.Exec with the DELETE.
RemoveNumberBegin(phoneNumber) ==
    /\ amu.holder = ""
    /\ amu' = [holder |-> "RemoveNumber", phoneNumber |-> phoneNumber,
               ring |-> "", exec |-> TRUE]
    /\ UNCHANGED <<now, clients, nextPrune, seen, handler, lastRegister, api,
                   webhooks, repair, sup, gatewayUp, nextSweep, cm, numbers, db>>

\* db.Exec returns; RemoveNumber updates the mirror when the DELETE
\* succeeded, and its deferred Unlock runs.
RemoveNumberEnd(dbFails) ==
    /\ amu.holder = "RemoveNumber"
    /\ LET r == RemovedNumber(numbers, db, amu.phoneNumber, dbFails)
       IN  numbers' = r.numbers /\ db' = r.db
    /\ amu' = Unlocked
    /\ UNCHANGED <<now, clients, nextPrune, seen, handler, lastRegister, api,
                   webhooks, repair, sup, gatewayUp, nextSweep, cm>>

\* The process is restarted on the same database file:
\* NewAllowlistManager makes a manager with an empty mirror and calls
\* loadNumbers.  When that fails it returns no manager, and the holder
\* "nil" stands for it.
NewAllowlistManager(loadFails) ==
    /\ LET r == LoadedNumbers(Empty, db, loadFails)
       IN  /\ numbers' = r.numbers
           /\ amu' = IF r.err = "" THEN Unlocked
                     ELSE [Unlocked EXCEPT !.holder = "nil"]
    /\ UNCHANGED <<now, clients, nextPrune, db, seen, handler, lastRegister,
                   api, webhooks, repair, sup, gatewayUp, nextSweep, cm>>

\* POST /register on the Admin API.
PostRegister(addr, body) ==
    LET rejected == IF ~PrivateIPOnlyMiddleware(PrivateIP, addr)
                    THEN StatusForbidden
                    ELSE RegisterRejected(body)
    IN  /\ IF rejected # 0
           THEN /\ UNCHANGED <<clients, lastRegister>>
                /\ api' = Answered("POST /register", addr, body, FALSE, rejected)
           ELSE /\ clients' = Registered(clients, body.req.ID,
                                         NewClient(body.req), now)
                /\ lastRegister' =
                      [i \in DOMAIN lastRegister \cup {body.req.ID} |->
                          IF i = body.req.ID THEN [req |-> body.req, at |-> now]
                          ELSE lastRegister[i]]
                /\ api' = Answered("POST /register", addr, body, FALSE, StatusOK)
        /\ UNCHANGED <<now, nextPrune, numbers, db, seen, handler, webhooks,
                       repair, sup, gatewayUp, nextSweep, cm, amu>>

\* POST /allowlist?number=..&ring=.. on the Admin API.
PostAllowlist(addr, number, ring, dbFails) ==
    LET rejected == IF ~PrivateIPOnlyMiddleware(PrivateIP, addr)
                    THEN StatusForbidden
                    ELSE AllowlistRejected(number, ring)
        q == [number |-> number, ring |-> ring]
        r == AddedNumber(numbers, db, number, ring, dbFails)
    IN  /\ IF rejected # 0
           THEN /\ UNCHANGED <<numbers, db>>
                /\ api' = Answered("POST /allowlist", addr, q, FALSE, rejected)
           ELSE /\ numbers' = r.numbers
                /\ db' = r.db
                /\ api' = Answered("POST /allowlist", addr, q, dbFails,
                              IF r.err # "" THEN StatusBadRequest ELSE StatusOK)
        /\ UNCHANGED <<now, clients, nextPrune, seen, handler, lastRegister,
                       webhooks, repair, sup, gatewayUp, nextSweep, cm, amu>>

\* DELETE /allowlist?number=.. on the Admin API.
DeleteAllowlist(addr, number, dbFails) ==
    LET rejected == IF ~PrivateIPOnlyMiddleware(PrivateIP, addr)
                    THEN StatusForbidden
                    ELSE IF number = "" THEN StatusBadRequest ELSE 0
        q == [number |-> number]
        r == RemovedNumber(numbers, db, number, dbFails)
    IN  /\ IF rejected # 0
           THEN /\ UNCHANGED <<numbers, db>>
                /\ api' = Answered("DELETE /allowlist", addr, q, FALSE, rejected)
           ELSE /\ numbers' = r.numbers
                /\ db' = r.db
                /\ api' = Answered("DELETE /allowlist", addr, q, dbFails,
                              IF r.err # "" THEN StatusInternalServerError
                              ELSE StatusOK)
        /\ UNCHANGED <<now, clients, nextPrune, seen, handler, lastRegister,
                       webhooks, repair, sup, gatewayUp, nextSweep, cm, amu>>

\* Somebody other than the proxy registers a webhook on the gateway.
ExternalRegister(event, url) ==
    /\ Cardinality(webhooks) < MaxWebhooks
    /\ webhooks' = GatewayRegister(webhooks, event, url)
    /\ UNCHANGED <<now, clients, nextPrune, numbers, db, seen, handler,
                   lastRegister, api, repair, sup, gatewayUp, nextSweep, cm,
                   amu>>

\* Somebody other than the proxy deletes a webhook on the gateway.
ExternalDelete(id) ==
    /\ id \in {w.ID : w \in webhooks}
    /\ webhooks' = GatewayDelete(webhooks, id)
    /\ UNCHANGED <<now, clients, nextPrune, numbers, db, seen, handler,
                   lastRegister, api, repair, sup, gatewayUp, nextSweep, cm,
                   amu>>

RepairWebhooksDespiteListError(listFails, delFails, regFails) ==
    /\ webhooks' = Repaired(IF listFails THEN webhooks
                                         ELSE {w \in webhooks :
                                                  w \notin WrongURL(webhooks)},
                            IF listFails THEN {} ELSE ExistingWebhooks(webhooks),
                            regFails, 1)
    /\ repair' = [ran |-> TRUE, listed |-> ~listFails,
                  deleteCalls |-> IF listFails THEN {}
                                  ELSE {w.ID : w \in WrongURL(webhooks)},
                  registerCalls |->
                      {WebhookEvents[i] : i \in 1..Len(WebhookEvents)}
                          \ (IF listFails THEN {}
                                          ELSE ExistingWebhooks(webhooks)),
                  failed |-> listFails]
    /\ UNCHANGED <<now, clients, nextPrune, numbers, db, seen, handler,
                   lastRegister, api, sup, gatewayUp, nextSweep, cm, amu>>

\* One tick of the auto-repair goroutine: RepairWebhooks.  listFails: the
\* call GetWebhooks returns an error; delFails: the ids whose DeleteWebhook
\* returns an error; regFails: the events whose RegisterWebhook returns one.
\* The gateway is not changed by others during one tick.
RepairWebhooks(listFails, delFails, regFails) ==
    /\ IF listFails
       THEN /\ webhooks' = webhooks
            /\ repair' = [ran |-> TRUE, listed |-> FALSE, deleteCalls |-> {},
                          registerCalls |-> {}, failed |-> TRUE]
       ELSE LET existing == ExistingWebhooks(webhooks)
                wrong == {w.ID : w \in WrongURL(webhooks)}
                kept == {w \in webhooks : w.ID \notin (wrong \ delFails)}
                missing == {WebhookEvents[i] : i \in 1..Len(WebhookEvents)}
                               \ existing
            IN  /\ webhooks' = Repaired(kept, existing, regFails, 1)
                /\ repair' = [ran |-> TRUE, listed |-> TRUE,
                              deleteCalls |-> wrong, registerCalls |-> missing,
                              failed |-> (wrong \cap delFails # {})
                                            \/ (missing \cap regFails # {})]
    /\ UNCHANGED <<now, clients, nextPrune, numbers, db, seen, handler,
                   lastRegister, api, sup, gatewayUp, nextSweep, cm, amu>>

\* One tick of the auto-repair goroutine on any list the gateway returns.
\* The first loop slices the event of each listed registration; on an event
\* shorter than four bytes the goroutine panics, and as nothing recovers the
\* panic the runtime ends the process with exit status 2.  The entries that
\* come before it in the list have been handled: done are those deleted.
RepairTick(listFails, delFails, regFails) ==
    IF ~listFails /\ \E w \in webhooks : SlicePanics(w.Event)
    THEN /\ \E done \in SUBSET {w \in webhooks : ~SlicePanics(w.Event)} :
              webhooks' = {w \in webhooks :
                              \/ w \notin WrongURL(done)
                              \/ w.ID \in delFails}
         /\ sup' = [sup EXCEPT !.pc = "panicked", !.ticker = FALSE,
                               !.pruner = FALSE, !.listeners = {}]
         /\ repair' = [ran |-> TRUE, listed |-> TRUE, deleteCalls |-> {},
                       registerCalls |-> {}, failed |-> TRUE]
         /\ UNCHANGED <<now, clients, nextPrune, numbers, db, seen, handler,
                        lastRegister, api, gatewayUp, nextSweep, cm, amu>>
    ELSE RepairWebhooks(listFails, delFails, regFails)

\* The auto-repair goroutine's select takes <-ticker.C and RepairWebhooks
\* gets the list of the gateway: the tick is in progress, and repair holds
\* the delete and register calls its two loops are going to make.
TickList ==
    /\ sup.ticker /\ gatewayUp
    /\ ~(repair.listed /\ ~repair.ran)
    /\ repair' = [ran |-> FALSE, listed |-> TRUE,
                  deleteCalls |-> {w.ID : w \in WrongURL(webhooks)},
                  registerCalls |->
                      {WebhookEvents[i] : i \in 1..Len(WebhookEvents)}
                          \ ExistingWebhooks(webhooks),
                  failed |-> FALSE]
    /\ UNCHANGED <<now, clients, nextPrune, numbers, db, seen, handler,
                   lastRegister, api, webhooks, sup, gatewayUp, nextSweep, cm,
                   amu>>

\* The two loops of the tick in progress make their calls and the tick
\* ends.  The goroutine runs for as long as the process does: main closes
\* stopAutoRepair and does not wait for it.
TickApply ==
    /\ repair.listed /\ ~repair.ran
    /\ sup.pc # "exited"
    /\ webhooks' = Repaired({w \in webhooks : w.ID \notin repair.deleteCalls},
                            {WebhookEvents[i] : i \in 1..Len(WebhookEvents)}
                                \ repair.registerCalls,
                            {}, 1)
    /\ repair' = [repair EXCEPT !.ran = TRUE]
    /\ UNCHANGED <<now, clients, nextPrune, numbers, db, seen, handler,
                   lastRegister, api, sup, gatewayUp, nextSweep, cm, amu>>

\* The gateway stops answering, and answers again.
GatewayDown ==
    /\ gatewayUp
    /\ gatewayUp' = FALSE
    /\ UNCHANGED <<now, clients, nextPrune, numbers, db, seen, handler,
                   lastRegister, api, webhooks, repair, sup, nextSweep, cm,
                   amu>>

GatewayUp ==
    /\ ~gatewayUp
    /\ gatewayUp' = TRUE
    /\ UNCHANGED <<now, clients, nextPrune, numbers, db, seen, handler,
                   lastRegister, api, webhooks, repair, sup, nextSweep, cm,
                   amu>>

ProbeGivesUpSilently(d) ==
    /\ sup.pc = "probe"
    /\ LET elapsed == sup.elapsed + d
       IN  sup' = IF gatewayUp
                  THEN [sup EXCEPT !.pc = "install", !.elapsed = elapsed,
                                   !.healthy = TRUE, !.healthyAt = elapsed]
                  ELSE IF elapsed > HealthCheckRetry
                       THEN [sup EXCEPT !.pc = "install", !.elapsed = elapsed]
                  ELSE [sup EXCEPT !.elapsed = elapsed + ProbeInterval]
    /\ UNCHANGED <<now, clients, nextPrune, numbers, db, seen, handler,
                   lastRegister, api, webhooks, repair, gatewayUp, nextSweep,
                   cm, amu>>

\* One round of main's health loop: the probe CheckSMSGatewayHealth takes d
\* seconds; after a failed probe main gives up when more than
\* healthCheckRetry has elapsed since startTime, and sleeps otherwise.
Probe(d) ==
    /\ sup.pc = "probe"
    /\ LET elapsed == sup.elapsed + d
       IN  sup' = IF gatewayUp
                  THEN [sup EXCEPT !.pc = "install", !.elapsed = elapsed,
                                   !.healthy = TRUE, !.healthyAt = elapsed]
                  ELSE IF elapsed > HealthCheckRetry
                       THEN [sup EXCEPT !.pc = "fatal", !.elapsed = elapsed]
                  ELSE [sup EXCEPT !.elapsed = elapsed + ProbeInterval]
    /\ UNCHANGED <<now, clients, nextPrune, numbers, db, seen, handler,
                   lastRegister, api, webhooks, repair, gatewayUp, nextSweep,
                   cm, amu>>

\* main calls SetupWebhooks and exits with log.Fatalf when it fails.
SetupWebhooks(delFails, regFails) ==
    /\ sup.pc = "install"
    /\ LET r == SetupResult(webhooks, ~gatewayUp, delFails, regFails)
           deleted == {w.ID : w \in webhooks}
                         \ {w.ID : w \in SetupDeleted(webhooks, delFails, 1).hooks}
           registered == {w.Event : w \in
                             {x \in r.hooks : x.ID \notin
                                 {y.ID : y \in webhooks} \ deleted}}
       IN  /\ webhooks' = r.hooks
           /\ sup' = [sup EXCEPT
                 !.pc = IF r.err THEN "fatal" ELSE "start",
                 !.setup = IF r.err THEN "failed" ELSE "ok",
                 !.deleted = IF gatewayUp THEN deleted ELSE {},
                 !.registered = IF gatewayUp THEN registered ELSE {}]
    /\ UNCHANGED <<now, clients, nextPrune, numbers, db, seen, handler,
                   lastRegister, api, repair, gatewayUp, nextSweep, cm, amu>>

\* main starts the pruner, the auto-repair goroutine and the two servers,
\* and waits for a signal.
StartServices ==
    /\ sup.pc = "start"
    /\ sup' = [sup EXCEPT !.pc = "running", !.ticker = TRUE, !.pruner = TRUE,
                          !.listeners = {"api", "webhook"}]
    /\ UNCHANGED <<now, clients, nextPrune, numbers, db, seen, handler,
                   lastRegister, api, webhooks, repair, gatewayUp, nextSweep,
                   cm, amu>>

\* GET /health on the Admin API.
GetHealth(addr) ==
    /\ "api" \in sup.listeners
    /\ api' = Answered("GET /health", addr, <<>>, ~gatewayUp,
                       IF ~PrivateIPOnlyMiddleware(PrivateIP, addr)
                       THEN StatusForbidden
                       ELSE HealthStatus(~gatewayUp))
    /\ UNCHANGED <<now, clients, nextPrune, numbers, db, seen, handler,
                   lastRegister, webhooks, repair, sup, gatewayUp, nextSweep,
                   cm, amu>>

\* A termination signal arrives on sigChan.
Signal ==
    /\ sup.pc = "running"
    /\ sup' = [sup EXCEPT !.pc = "shutdown"]
    /\ UNCHANGED <<now, clients, nextPrune, numbers, db, seen, handler,
                   lastRegister, api, webhooks, repair, gatewayUp, nextSweep,
                   cm, amu>>

\* The next step of main after the signal.  fails: Shutdown(ctx) returns an
\* error, or every DeleteWebhook of the cleanup does; the error is logged.
ShutdownStep(fails) ==
    /\ sup.pc = "shutdown"
    /\ Len(sup.log) < Len(ShutdownOrder)
    /\ LET step == ShutdownOrder[Len(sup.log) + 1]
           clean == CleanupResult(webhooks, ~gatewayUp,
                                  IF fails THEN {w.ID : w \in webhooks} ELSE {})
           err == IF step = "cleanup" THEN clean.err
                  ELSE fails /\ step \in {"shutdownAPI", "shutdownWebhook"}
       IN  /\ sup' = [sup EXCEPT
                 !.log = Append(@, step),
                 !.errors = IF err THEN @ \cup {step} ELSE @,
                 !.ticker = IF step = "stopAutoRepair" THEN FALSE ELSE @,
                 !.pruner = IF step = "stopPruner" THEN FALSE ELSE @,
                 !.listeners = IF step = "shutdownAPI" THEN @ \ {"api"}
                               ELSE IF step = "shutdownWebhook"
                                    THEN @ \ {"webhook"}
                               ELSE @]
           /\ webhooks' = IF step = "cleanup" THEN clean.hooks ELSE webhooks
    /\ UNCHANGED <<now, clients, nextPrune, numbers, db, seen, handler,
                   lastRegister, api, repair, gatewayUp, nextSweep, cm, amu>>

\* main returns.
Exit ==
    /\ sup.pc = "shutdown"
    /\ Len(sup.log) = Len(ShutdownOrder)
    /\ sup' = [sup EXCEPT !.pc = "exited"]
    /\ UNCHANGED <<now, clients, nextPrune, numbers, db, seen, handler,
                   lastRegister, api, webhooks, repair, gatewayUp, nextSweep,
                   cm, amu>>

\* The pruner goroutine's select takes the case <-ticker.C and calls prune.
TickerFires ==
    /\ cm.pruner = "select"
    /\ cm' = [cm EXCEPT !.pruner = "lock"]
    /\ UNCHANGED <<now, nextPrune, numbers, db, seen, handler, api, webhooks,
                   repair, sup, gatewayUp, nextSweep, amu, clients, lastRegister>>

\* prune gets the mutex.
PruneLock ==
    /\ cm.pruner = "lock" /\ cm.mu = ""
    /\ cm' = [cm EXCEPT !.pruner = "prune", !.mu = "prune"]
    /\ UNCHANGED <<now, nextPrune, numbers, db, seen, handler, api, webhooks,
                   repair, sup, gatewayUp, nextSweep, amu, clients, lastRegister>>

\* prune deletes the stale clients, releases the mutex and returns to the
\* goroutine's loop.
PruneUnlock ==
    /\ cm.pruner = "prune"
    /\ clients' = Pruned(clients, now)
    /\ cm' = [cm EXCEPT !.pruner = "select", !.mu = ""]
    /\ UNCHANGED <<now, nextPrune, numbers, db, seen, handler, api, webhooks,
                   repair, sup, gatewayUp, nextSweep, amu, lastRegister>>

\* ClientManager.Register gets the mutex.
RegisterLock(req) ==
    /\ cm.mu = ""
    /\ cm' = [cm EXCEPT !.mu = "register", !.req = req]
    /\ UNCHANGED <<now, nextPrune, numbers, db, seen, handler, api, webhooks,
                   repair, sup, gatewayUp, nextSweep, amu, clients, lastRegister>>

\* ClientManager.Register stores the client and releases the mutex.
RegisterUnlock ==
    /\ cm.mu = "register"
    /\ clients' = Registered(clients, cm.req.ID, NewClient(cm.req), now)
    /\ lastRegister' = [i \in DOMAIN lastRegister \cup {cm.req.ID} |->
          IF i = cm.req.ID THEN [req |-> cm.req, at |-> now]
          ELSE lastRegister[i]]
    /\ cm' = [cm EXCEPT !.mu = "", !.req = <<>>]
    /\ UNCHANGED <<now, nextPrune, numbers, db, seen, handler, api, webhooks,
                   repair, sup, gatewayUp, nextSweep, amu>>

\* ClientManager.Stop: close(cm.stopChan), then it blocks in cm.wg.Wait().
StopClose ==
    /\ cm.stop = "none"
    /\ cm' = [cm EXCEPT !.stopChan = "closed", !.stop = "waiting",
                        !.at = [pruner |-> cm.pruner, mu |-> cm.mu]]
    /\ UNCHANGED <<now, nextPrune, numbers, db, seen, handler, api, webhooks,
                   repair, sup, gatewayUp, nextSweep, amu, clients, lastRegister>>

\* The goroutine's select takes the case <-cm.stopChan: it returns, and its
\* deferred calls stop the ticker and call wg.Done().
PrunerExit ==
    /\ cm.pruner = "select" /\ cm.stopChan = "closed"
    /\ cm' = [cm EXCEPT !.pruner = "exited"]
    /\ UNCHANGED <<now, nextPrune, numbers, db, seen, handler, api, webhooks,
                   repair, sup, gatewayUp, nextSweep, amu, clients, lastRegister>>

StopReturnWithoutWait ==
    /\ cm.stop = "waiting"
    /\ cm' = [cm EXCEPT !.stop = "returned"]
    /\ UNCHANGED <<now, nextPrune, numbers, db, seen, handler, api, webhooks,
                   repair, sup, gatewayUp, nextSweep, amu, clients, lastRegister>>

\* cm.wg.Wait() returns and Stop returns.
StopReturn ==
    /\ cm.stop = "waiting" /\ cm.pruner = "exited"
    /\ cm' = [cm EXCEPT !.stop = "returned"]
    /\ UNCHANGED <<now, nextPrune, numbers, db, seen, handler, api, webhooks,
                   repair, sup, gatewayUp, nextSweep, amu, clients, lastRegister>>

\* MessageCache.Cleanup(ttl).
Cleanup(ttl) ==
    /\ seen' = CleanedUp(seen, ttl, now)
    /\ UNCHANGED <<now, clients, nextPrune, numbers, db, handler,
                   lastRegister, api, webhooks, repair, sup, gatewayUp,
                   nextSweep, cm, amu>>

ReceiveMarksUnparsed(h, eventType, body) ==
    /\ handler[h].pc = "idle"
    /\ IF h = 1 THEN TRUE ELSE handler[h - 1].pc # "idle"
    /\ LET p == ParseBody(body)
           hr == [handler[h] EXCEPT !.eventType = eventType, !.body = body]
       IN  /\ handler' = [handler EXCEPT ![h] =
                 IF p.err
                 THEN Returned([hr EXCEPT !.status = StatusBadRequest])
                 ELSE [hr EXCEPT !.pc = "dedup", !.messageID = p.MessageID,
                                 !.phoneNumber = p.PhoneNumber]]
           /\ seen' = IF p.err /\ body.messageId # ""
                      THEN IsSeenAndMark(seen,
                              DedupKey(eventType, body.messageId), now).cache
                      ELSE seen
    /\ UNCHANGED <<now, clients, nextPrune, numbers, db, lastRegister, api,
                   webhooks, repair, sup, gatewayUp, nextSweep, cm, amu>>

\* A request arrives on /webhook/<eventType>; the handler reads and parses
\* the body and answers 400 when it cannot.
Receive(h, eventType, body) ==
    /\ handler[h].pc = "idle"
    /\ IF h = 1 THEN TRUE ELSE handler[h - 1].pc # "idle"
    /\ LET p == ParseBody(body)
           hr == [handler[h] EXCEPT !.eventType = eventType, !.body = body]
       IN  handler' = [handler EXCEPT ![h] =
              IF p.err
              THEN Returned([hr EXCEPT !.status = StatusBadRequest])
              ELSE [hr EXCEPT !.pc = "dedup", !.messageID = p.MessageID,
                              !.phoneNumber = p.PhoneNumber]]
    /\ UNCHANGED <<now, clients, nextPrune, numbers, db, seen, lastRegister,
                   api, webhooks, repair, sup, gatewayUp, nextSweep, cm, amu>>

CheckDuplicateAlways(h) ==
    /\ handler[h].pc = "dedup"
    /\ LET r == IsSeenAndMark(seen,
                    DedupKey(handler[h].eventType, handler[h].messageID), now)
       IN  /\ seen' = r.cache
           /\ handler' = [handler EXCEPT ![h] =
                 IF r.seen
                 THEN Returned([@ EXCEPT !.status = StatusOK,
                                         !.duplicate = TRUE])
                 ELSE [@ EXCEPT !.pc = "respond"]]
    /\ UNCHANGED <<now, clients, nextPrune, numbers, db, lastRegister, api,
                   webhooks, repair, sup, gatewayUp, nextSweep, cm, amu>>

\* The duplicate check: a duplicate is answered 200 and the handler returns.
CheckDuplicate(h) ==
    /\ handler[h].pc = "dedup"
    /\ IF handler[h].messageID # ""
       THEN LET r == IsSeenAndMark(seen,
                        DedupKey(handler[h].eventType, handler[h].messageID), now)
            IN  /\ seen' = r.cache
                /\ handler' = [handler EXCEPT ![h] =
                      IF r.seen
                      THEN Returned([@ EXCEPT !.status = StatusOK,
                                              !.duplicate = TRUE])
                      ELSE [@ EXCEPT !.pc = "respond"]]
       ELSE /\ seen' = seen
            /\ handler' = [handler EXCEPT ![h].pc = "respond"]
    /\ UNCHANGED <<now, clients, nextPrune, numbers, db, lastRegister, api,
                   webhooks, repair, sup, gatewayUp, nextSweep, cm, amu>>

RespondAfterFanout(h) ==
    /\ handler[h].pc = "respond"
    /\ handler' = [handler EXCEPT ![h].pc = "list"]
    /\ UNCHANGED <<now, clients, nextPrune, numbers, db, seen, lastRegister,
                   api, webhooks, repair, sup, gatewayUp, nextSweep, cm, amu>>

\* w.WriteHeader(200); w.Write("OK"): the answer is written to the
\* ResponseWriter's buffer.
Respond(h) ==
    /\ handler[h].pc = "respond"
    /\ handler' = [handler EXCEPT ![h].status = StatusOK, ![h].pc = "list"]
    /\ UNCHANGED <<now, clients, nextPrune, numbers, db, seen, lastRegister,
                   api, webhooks, repair, sup, gatewayUp, nextSweep, cm, amu>>

\* clients := clientManager.List()
ListClients(h) ==
    /\ handler[h].pc = "list"
    /\ handler' = [handler EXCEPT ![h].clients = ListAll(clients),
                                  ![h].pc = "ring"]
    /\ UNCHANGED <<now, clients, nextPrune, numbers, db, seen, lastRegister,
                   api, webhooks, repair, sup, gatewayUp, nextSweep, cm, amu>>

LookupRingUnmarksDropped(h) ==
    /\ handler[h].pc = "ring"
    /\ LET hr == handler[h]
           filtered == FilterByEvent(hr.clients, hr.eventType)
           ring == GetRing(numbers, hr.phoneNumber)
           ringFiltered == RingFiltered(hr.clients, filtered, ring)
           key == DedupKey(hr.eventType, hr.messageID)
       IN  /\ handler' = [handler EXCEPT ![h] =
                 IF ring = ""
                 THEN Returned([hr EXCEPT !.targetRing = ring])
                 ELSE [hr EXCEPT !.targetRing = ring, !.targets = ringFiltered,
                                 !.posts = [c \in ringFiltered |-> <<>>],
                                 !.pc = "forward"]]
           /\ seen' = IF ring = "" \/ ringFiltered = {}
                      THEN [k \in DOMAIN seen \ {key} |-> seen[k]]
                      ELSE seen
    /\ UNCHANGED <<now, clients, nextPrune, numbers, db, lastRegister, api,
                   webhooks, repair, sup, gatewayUp, nextSweep, cm, amu>>

\* FilterByEvent, the allowlist lookup, the ring filter, and the launch of
\* one forwarder goroutine per remaining client.
LookupRing(h) ==
    /\ handler[h].pc = "ring"
    /\ LET hr == handler[h]
           filtered == FilterByEvent(hr.clients, hr.eventType)
           ring == GetRing(numbers, hr.phoneNumber)
           ringFiltered == RingFiltered(hr.clients, filtered, ring)
       IN  handler' = [handler EXCEPT ![h] =
              IF ring = ""
              THEN Returned([hr EXCEPT !.targetRing = ring])
              ELSE [hr EXCEPT !.targetRing = ring, !.targets = ringFiltered,
                              !.posts = [c \in ringFiltered |-> <<>>],
                              !.pc = "forward"]]
    /\ UNCHANGED <<now, clients, nextPrune, numbers, db, seen, lastRegister,
                   api, webhooks, repair, sup, gatewayUp, nextSweep, cm, amu>>

TargetLive(hr, c, cs) == IF c \in DOMAIN cs THEN cs[c] ELSE hr.clients[c]

\* The Client the forwarder goroutine of c was started with: the one of the
\* handler's snapshot, whatever the registry cs holds now.
Target(hr, c, cs) == hr.clients[c]

\* The forwarder goroutine of client c is still in its retry loop: nothing
\* but its own attempts decides that.
CanPostUntilAnotherGaveUp(hr, c) ==
    /\ c \in hr.targets
    /\ ~ForwarderDone(hr.posts[c])
    /\ \A d \in hr.targets \ {c} :
          ~(Len(hr.posts[d]) >= MaxAttempts /\ ~hr.posts[d][Len(hr.posts[d])].ok)

CanPost(hr, c) ==
    /\ c \in hr.targets
    /\ ~ForwarderDone(hr.posts[c])

\* The body of an attempt: bytes.NewBuffer(body) over the bytes the handler
\* read from the request, a new reader for every attempt.
AttemptBodyDrained(hr, c) == IF Len(hr.posts[c]) = 0 THEN hr.body ELSE NoBody

AttemptBody(hr, c) == hr.body

\* One attempt of the forwarder of client c: http.Post and its outcome.
Post(h, c, resp) ==
    /\ handler[h].pc = "forward"
    /\ CanPost(handler[h], c)
    /\ handler' = [handler EXCEPT ![h].posts[c] = Append(@,
          [url |-> Target(handler[h], c, clients).WebhookURL
                      \o "/" \o handler[h].eventType,
           body |-> AttemptBody(handler[h], c), ok |-> IsSuccess(resp)])]
    /\ UNCHANGED <<now, clients, nextPrune, numbers, db, seen, lastRegister,
                   api, webhooks, repair, sup, gatewayUp, nextSweep, cm, amu>>

\* wg.Wait() returns once every forwarder is done, and the handler returns.
Return(h) ==
    /\ handler[h].pc = "forward"
    /\ \A c \in handler[h].targets : ~CanPost(handler[h], c)
    /\ handler' = [handler EXCEPT ![h] = Returned(@)]
    /\ UNCHANGED <<now, clients, nextPrune, numbers, db, seen, lastRegister,
                   api, webhooks, repair, sup, gatewayUp, nextSweep, cm, amu>>

\* The steps of the handler of request h.
Handle(h, resps) ==
    \/ CheckDuplicate(h)
    \/ Respond(h)
    \/ ListClients(h)
    \/ LookupRing(h)
    \/ \E c \in ClientIDs, resp \in resps : Post(h, c, resp)
    \/ Return(h)

(* ---------------------- the fan-out specification ---------------------- *)

FanoutRegistrations ==
    {RegisterRequest("A", "http://a", "prod", {"received"}),
     RegisterRequest("B", "http://b", "ppe", {"received"}),
     RegisterRequest("B", "http://b", "prod", {"received", "sent"})}

FanoutEnvelopes ==
    {<<"received", Body(TRUE, TRUE, "m1", "+15551112222")>>,
     <<"received", Body(TRUE, TRUE, "m2", "+15553334444")>>,
     <<"sent", Body(TRUE, TRUE, "m1", "+15551112222")>>}

FanoutAllowlist == {<<"+15551112222", "prod">>, <<"+15553334444", "ppe">>}

Next ==
    \/ \E req \in FanoutRegistrations : Register(req)
    \/ \E a \in FanoutAllowlist, f \in BOOLEAN : AddNumber(a[1], a[2], f)
    \/ \E n \in {"+15551112222"}, f \in BOOLEAN : RemoveNumber(n, f)
    \/ \E h \in Requests, e \in FanoutEnvelopes : Receive(h, e[1], e[2])
    \/ \E h \in Requests : Handle(h, Responses)

Spec == Init /\ [][Next]_vars

(* ---------------------- the registry specification --------------------- *)

RegistryRegistrations ==
    {RegisterRequest("A", "http://a", "prod", {"received"}),
     RegisterRequest("A", "http://a2", "ppe", {"received", "sent"}),
     RegisterRequest("B", "http://b", "prod", {"received"})}

RegistryHorizon == MaxSteps * TimeStep

NextRegistry ==
    \/ \E req \in RegistryRegistrations : Register(req)
    \/ AdvanceTime(RegistryHorizon)
    \/ PrunerTick(RegistryHorizon)

SpecRegistry == Init /\ [][NextRegistry]_vars

(* ----------------------- the pruning specification --------------------- *)

PruningRegistrations ==
    {RegisterRequest("A", "http://a", "prod", {"received"}),
     RegisterRequest("B", "http://b", "prod", {"received"})}

PruningEnvelopes ==
    {<<"received", Body(TRUE, TRUE, "m1", "+15551112222")>>}

RegisterWindow == MaxRegisterSteps * TimeStep

NextPruning ==
    \/ \E req \in PruningRegistrations : now <= RegisterWindow /\ Register(req)
    \/ AdvanceTime(RegistryHorizon)
    \/ PrunerTick(RegistryHorizon)
    \/ AddNumber("+15551112222", "prod", FALSE)
    \/ \E e \in PruningEnvelopes : Receive(1, e[1], e[2])
    \/ Handle(1, {Response(FALSE, 200), Response(FALSE, 500)})

SpecPruning == Init /\ [][NextPruning]_vars

(* ----------------------- the snapshot specification -------------------- *)

\* A registers, and re-registers with another URL and ring; B registers.
SnapshotRegistrations ==
    {RegisterRequest("A", "http://a", "prod", {"received"}),
     RegisterRequest("A", "http://a2", "ppe", {"received"}),
     RegisterRequest("B", "http://b", "prod", {"received"})}

NextSnapshot ==
    \/ \E req \in SnapshotRegistrations : now = 0 /\ Register(req)
    \/ AdvanceTime(RegistryHorizon)
    \/ PrunerTick(RegistryHorizon)
    \/ AddNumber("+15551112222", "prod", FALSE)
    \/ \E e \in PruningEnvelopes : Receive(1, e[1], e[2])
    \/ Handle(1, {Response(FALSE, 200), Response(FALSE, 500)})

SpecSnapshot == Init /\ [][NextSnapshot]_vars

(* ---------------------- the dedup cache specification ------------------ *)

\* Events of two message ids of one kind.
DedupEnvelopes ==
    {<<"received", Body(TRUE, TRUE, "m1", "+15551112222")>>,
     <<"received", Body(TRUE, TRUE, "m2", "+15551112222")>>}

\* The TTLs Cleanup is called with, and where the clock stops.
DedupTTLs == {TimeStep, 3 * TimeStep}
DedupHorizon == MaxDedupSteps * TimeStep

NextDedup ==
    \/ AdvanceTime(DedupHorizon)
    \/ PrunerTick(DedupHorizon)
    \/ \E ttl \in DedupTTLs : Cleanup(ttl)
    \/ \E h \in Requests, e \in DedupEnvelopes : Receive(h, e[1], e[2])
    \/ \E h \in Requests : CheckDuplicate(h)
    \/ \E h \in Requests : Respond(h)
    \/ \E h \in Requests : ListClients(h)
    \/ \E h \in Requests : LookupRing(h)

SpecDedup == Init /\ [][NextDedup]_vars

(* ----------------------- the sweeper specification --------------------- *)

\* The step of the clock in this specification, and where its clock stops.
SweepStep == SweepPeriod \div 2
SweepHorizon == SweepTTL + 2 * SweepPeriod

\* Time passes and the sweeper's ticker does not fire.  The pruner's ticks
\* of the interval have the effect of its last one, at the end.
SweeperIdle(horizon) ==
    /\ now < horizon
    /\ now + SweepStep < nextSweep
    /\ now' = now + SweepStep
    /\ clients' = Pruned(clients, now')
    /\ nextPrune' = now' + PrunePeriod
    /\ UNCHANGED <<numbers, db, seen, handler, lastRegister, api, webhooks,
                   repair, sup, gatewayUp, nextSweep, cm, amu>>

\* Time passes up to a tick of the sweeper's ticker, and the sweeper calls
\* Cleanup with the TTL.
SweeperTick(horizon) ==
    /\ now < horizon
    /\ now + SweepStep >= nextSweep
    /\ now' = now + SweepStep
    /\ seen' = CleanedUp(seen, SweepTTL, now')
    /\ nextSweep' = nextSweep + SweepPeriod
    /\ clients' = Pruned(clients, now')
    /\ nextPrune' = now' + PrunePeriod
    /\ UNCHANGED <<numbers, db, handler, lastRegister, api, webhooks, repair,
                   sup, gatewayUp, cm, amu>>

NextSweeper ==
    \/ SweeperIdle(SweepHorizon)
    \/ SweeperTick(SweepHorizon)
    \/ RepairWebhooks(~gatewayUp, {}, {})
    \/ \E h \in Requests, e \in DedupEnvelopes : Receive(h, e[1], e[2])
    \/ \E h \in Requests : CheckDuplicate(h)
    \/ \E h \in Requests : Respond(h)
    \/ \E h \in Requests : ListClients(h)
    \/ \E h \in Requests : LookupRing(h)

SpecSweeper == Init /\ [][NextSweeper]_vars

(* --------------------- the reconciler specification ------------------- *)

\* What others register on the gateway: expected and stray URLs.
ExternalHooks ==
    {<<"sms:received", ExpectedURL("sms:received")>>,
     <<"sms:received", "http://wrong">>,
     <<"sms:sent", "http://127.0.0.1:9999/webhook/sent">>}

NextReconciler ==
    \/ \E x \in ExternalHooks : ExternalRegister(x[1], x[2])
    \/ \E id \in 1..MaxWebhooks : ExternalDelete(id)
    \/ \E listFails \in BOOLEAN,
          delFails \in {{}, 1..MaxWebhooks},
          regFails \in {{}, {"sms:failed"}} :
          RepairWebhooks(listFails, delFails, regFails)

SpecReconciler == Init /\ [][NextReconciler]_vars

(* ------------------- the reconciler on any gateway list ---------------- *)

\* Registrations of others on the gateway, or what a gateway answers that
\* leaves the event of an entry out.
AnyHooks ==
    {<<"sms:received", ExpectedURL("sms:received")>>,
     <<"sms:sent", "http://wrong">>,
     <<"system:ping", "http://other">>,
     <<"", "http://other">>}

NextRepairAny ==
    \/ \E x \in AnyHooks : sup.pc = "running" /\ ExternalRegister(x[1], x[2])
    \/ \E id \in 1..MaxWebhooks : sup.pc = "running" /\ ExternalDelete(id)
    \/ \E listFails \in BOOLEAN,
          delFails \in {{}, 1..MaxWebhooks},
          regFails \in {{}, {"sms:failed"}} :
          sup.ticker /\ RepairTick(listFails, delFails, regFails)

SpecRepairAny == Init /\ [][NextRepairAny]_vars

(* --------------------- the Admin API specification -------------------- *)

\* The server listens on TCP, so every local address is a *net.TCPAddr.
AdminAddrs == {LocalAddr(TRUE, "10.0.0.5"), LocalAddr(TRUE, "192.168.1.5")}

AdminBodies ==
    {RegisterBody(TRUE, RegisterRequest("A", "http://a", "prod", {"received"})),
     RegisterBody(TRUE, RegisterRequest("A", "http://a2", "ppe", {"sent"})),
     RegisterBody(FALSE, RegisterRequest("", "", "", {})),
     RegisterBody(TRUE, RegisterRequest("", "http://a", "prod", {"received"})),
     RegisterBody(TRUE, RegisterRequest(LongID, "http://a", "prod", {"received"})),
     RegisterBody(TRUE, RegisterRequest("B", "", "prod", {"received"})),
     RegisterBody(TRUE, RegisterRequest("B", "http://b", "", {"received"})),
     RegisterBody(TRUE, RegisterRequest("B", "http://b", "test", {"received"}))}

AdminNumbers == {"+15551112222", "5551112222", "", "12345", "+1555abc2222"}

AdminRings == {"prod", "ppe", "", "test"}

NextAdmin ==
    \/ \E addr \in AdminAddrs, body \in AdminBodies : PostRegister(addr, body)
    \/ \E addr \in AdminAddrs, number \in AdminNumbers, ring \in AdminRings,
          dbFails \in BOOLEAN : PostAllowlist(addr, number, ring, dbFails)
    \/ \E addr \in AdminAddrs, number \in AdminNumbers, dbFails \in BOOLEAN :
          DeleteAllowlist(addr, number, dbFails)

SpecAdmin == Init /\ [][NextAdmin]_vars

(* ---------------------- the ingress specification --------------------- *)

\* Bodies the gateway may send: complete, without message id, without phone
\* number, not JSON, and JSON whose payload has fields of the wrong type.
IngressEnvelopes ==
    {<<"received", Body(TRUE, TRUE, "m1", "+15551112222")>>,
     <<"received", Body(TRUE, TRUE, "", "+15551112222")>>,
     <<"received", Body(TRUE, TRUE, "m1", "")>>,
     <<"received", Body(FALSE, FALSE, "", "")>>,
     <<"received", Body(TRUE, FALSE, "", "")>>}

NextIngress ==
    \/ Register(RegisterRequest("A", "http://a", "prod", {"received"}))
    \/ AddNumber("+15551112222", "prod", FALSE)
    \/ \E h \in Requests, e \in IngressEnvelopes : Receive(h, e[1], e[2])
    \/ \E h \in Requests :
          Handle(h, {Response(FALSE, 200), Response(FALSE, 500)})

SpecIngress == Init /\ [][NextIngress]_vars

(* -------------------- the allowlist lock specification ----------------- *)

\* The handler's allowlist lookup: GetRing takes the read lock, which it
\* gets only while no writer holds the lock.
LookupRingLocked(h) ==
    /\ amu.holder = ""
    /\ LookupRing(h)

NextAllowlistLock ==
    \/ \E ring \in Rings : AddNumberBegin("+15551112222", ring)
    \/ \E dbFails \in BOOLEAN : AddNumberEnd(dbFails)
    \/ RemoveNumberBegin("+15551112222")
    \/ \E dbFails \in BOOLEAN : RemoveNumberEnd(dbFails)
    \/ \E h \in Requests, e \in DedupEnvelopes : Receive(h, e[1], e[2])
    \/ \E h \in Requests : CheckDuplicate(h)
    \/ \E h \in Requests : Respond(h)
    \/ \E h \in Requests : ListClients(h)
    \/ \E h \in Requests : LookupRingLocked(h)

SpecAllowlistLock == Init /\ [][NextAllowlistLock]_vars

(* ---------------------- the rejection specification ------------------- *)

\* A well-formed event, an event whose payload carries the same message id
\* next to a field of the wrong type, and bytes that are no JSON.
RejectEnvelopes ==
    {<<"received", Body(TRUE, TRUE, "m1", "+15551112222")>>,
     <<"received", Body(TRUE, FALSE, "m1", "+15551112222")>>,
     <<"received", Body(FALSE, FALSE, "", "")>>}

NextReject ==
    \/ Register(RegisterRequest("A", "http://a", "prod", {"received"}))
    \/ AddNumber("+15551112222", "prod", FALSE)
    \/ \E h \in Requests, e \in RejectEnvelopes : Receive(h, e[1], e[2])
    \/ \E h \in Requests :
          Handle(h, {Response(FALSE, 200), Response(FALSE, 500)})

SpecReject == Init /\ [][NextReject]_vars

(* ----------------------- the mirror specification ---------------------- *)

\* The numbers the operator adds and removes.
MirrorNumbers == Phones \cup {"12345"}

NextMirror ==
    \/ \E n \in MirrorNumbers, ring \in Rings : AddNumberBegin(n, ring)
    \/ \E dbFails \in BOOLEAN : AddNumberEnd(dbFails)
    \/ \E n \in MirrorNumbers : RemoveNumberBegin(n)
    \/ \E dbFails \in BOOLEAN : RemoveNumberEnd(dbFails)
    \/ \E loadFails \in BOOLEAN : NewAllowlistManager(loadFails)

SpecMirror == Init /\ [][NextMirror]_vars

(* ------------------- the shutdown with a tick in progress -------------- *)

NextShutdownTick ==
    \/ \E id \in 1..MaxWebhooks : sup.pc = "running" /\ ExternalDelete(id)
    \/ TickList
    \/ TickApply
    \/ Signal
    \/ ShutdownStep(FALSE)
    \/ Exit

SpecShutdownTick == Init /\ [][NextShutdownTick]_vars

(* ------------------------- the Stop specification ---------------------- *)

NextStop ==
    \/ TickerFires
    \/ PruneLock
    \/ PruneUnlock
    \/ \E req \in PruningRegistrations : RegisterLock(req)
    \/ RegisterUnlock
    \/ StopClose
    \/ PrunerExit
    \/ StopReturn

SpecStop == Init /\ [][NextStop]_vars

\* Every call that holds the mutex releases it, the mutex is handed to a
\* goroutine that waits for it, and the select of the goroutine, which
\* chooses among its ready cases at random, takes <-stopChan in the end.
SpecStopLive ==
    /\ SpecStop
    /\ WF_vars(PruneUnlock) /\ WF_vars(RegisterUnlock) /\ WF_vars(StopReturn)
    /\ SF_vars(PruneLock) /\ SF_vars(PrunerExit)

(* ---------------------- the supervisor specification ------------------ *)

\* The process starts: main is before its health loop, the gateway answers
\* or does not, and holds no registration, a stray one, or a stray one and
\* one that a former run of the proxy left.
InitSupervisor ==
    /\ now = 0
    /\ clients = Empty
    /\ nextPrune = PrunePeriod
    /\ numbers = Empty
    /\ db = Empty
    /\ seen = Empty
    /\ handler = [h \in Requests |-> Idle]
    /\ lastRegister = Empty
    /\ api = NoRequest
    /\ webhooks \in {{}, {Webhook(1, "sms:received", "http://wrong")},
                     {Webhook(1, "sms:received", "http://wrong"),
                      Webhook(2, "sms:sent", ExpectedURL("sms:sent"))}}
    /\ repair = NoRepair
    /\ sup = Booting
    /\ gatewayUp \in BOOLEAN
    /\ nextSweep = SweepPeriod
    /\ cm = Pruning
    /\ amu = Unlocked

NextSupervisor ==
    \/ GatewayDown
    \/ GatewayUp
    \/ \E d \in 0..ProbeTimeout : Probe(d)
    \/ \E delFails \in {{}, 1..MaxWebhooks}, regFails \in {{}, {"sms:failed"}} :
          SetupWebhooks(delFails, regFails)
    \/ StartServices
    \/ \E id \in 1..MaxWebhooks : gatewayUp /\ ExternalDelete(id)
    \/ sup.ticker /\ RepairWebhooks(~gatewayUp, {}, {})
    \/ \E addr \in AdminAddrs : GetHealth(addr)
    \/ Signal
    \/ \E fails \in BOOLEAN : ShutdownStep(fails)
    \/ Exit

SpecSupervisor == InitSupervisor /\ [][NextSupervisor]_vars

\* The ticker of the auto-repair goroutine fires every 30 s for as long as
\* the goroutine runs, so a tick that stays possible is taken.
SpecSupervisorLive ==
    SpecSupervisor /\ WF_vars(sup.ticker /\ RepairWebhooks(~gatewayUp, {}, {}))

(* ------------------------------- claims -------------------------------- *)

\* The event kinds a client subscribes to.
Kinds(client) ==
    (IF client.SmsReceived THEN {"received"} ELSE {})
    \cup (IF client.SmsSent THEN {"sent"} ELSE {})
    \cup (IF client.SmsDelivered THEN {"delivered"} ELSE {})
    \cup (IF client.SmsFailed THEN {"failed"} ELSE {})

\* The clients of h's snapshot with the given ring that subscribe to h's kind.
Matched(h, ring) ==
    {c \in DOMAIN handler[h].clients :
        /\ handler[h].clients[c].Ring = ring
        /\ handler[h].eventType \in Kinds(handler[h].clients[c])}

\* The event of h was parsed and went through the duplicate check.
PastDedup(h) ==
    /\ handler[h].pc \in {"respond", "list", "ring", "forward", "done"}
    /\ handler[h].status # StatusBadRequest

\* The forwarder of c for the event of h ran its loop to the end: it stopped
\* at its first 2xx answer, or after MaxAttempts failures.
CompleteRun(h, c) ==
    LET p == handler[h].posts[c]
    IN  /\ Len(p) >= 1
        /\ Len(p) <= MaxAttempts
        /\ \A i \in 1..(Len(p) - 1) : ~p[i].ok
        /\ p[Len(p)].ok \/ Len(p) = MaxAttempts

\* The forwarder of c for the event of h failed every attempt.
GaveUp(h, c) ==
    /\ c \in DOMAIN handler[h].posts
    /\ Len(handler[h].posts[c]) = MaxAttempts
    /\ \A i \in 1..MaxAttempts : ~handler[h].posts[c][i].ok

\* handler h takes its snapshot in this step.
TakesSnapshot(h) == handler[h].pc = "list" /\ handler'[h].pc = "ring"

\* handler h looks the sender up in the allowlist in this step.
LooksUpRing(h) == handler[h].pc = "ring" /\ handler'[h].pc # "ring"

\* C1: of two events with the same kind and the same non-empty message_id
\* (the key stays in the cache), exactly the one that checked first passes the
\* duplicate check; the other is answered 200, returns, and launches no
\* forwarder.
C1_OnlyFirstForwarded ==
    \A h1 \in Requests, h2 \in Requests :
        ( /\ h1 # h2
          /\ PastDedup(h1) /\ PastDedup(h2)
          /\ handler[h1].eventType = handler[h2].eventType
          /\ handler[h1].messageID = handler[h2].messageID
          /\ handler[h1].messageID # "" )
        => /\ handler[h1].duplicate # handler[h2].duplicate
           /\ handler[h1].duplicate =>
                /\ handler[h1].pc = "done" /\ handler[h1].status = StatusOK
                /\ handler[h1].delivered
                /\ handler[h1].targets = {} /\ handler[h1].posts = Empty

C1_Witness ==
    \E h1 \in Requests, h2 \in Requests :
        /\ h1 # h2
        /\ handler[h1].eventType = handler[h2].eventType
        /\ handler[h1].messageID = handler[h2].messageID
        /\ handler[h1].messageID # ""
        /\ ~handler[h1].duplicate /\ handler[h1].pc = "forward"
        /\ \E c \in handler[h1].targets : Len(handler[h1].posts[c]) > 0
        /\ handler[h2].duplicate /\ handler[h2].pc = "done"
        /\ handler[h2].status = StatusOK

\* C2: when the allowlist gives the sender ring r at the lookup, forwarders
\* are launched for exactly the clients of the snapshot whose ring is r and
\* whose kinds include the event's kind, and no other client is ever posted to.
C2_RingAndKindFilter ==
    /\ [][\A h \in Requests :
            (LooksUpRing(h) /\ handler[h].phoneNumber \in DOMAIN numbers)
            => /\ handler'[h].pc = "forward"
               /\ handler'[h].targets = Matched(h, numbers[handler[h].phoneNumber])
               /\ DOMAIN handler'[h].posts = handler'[h].targets]_vars
    /\ [](\A h \in Requests :
            /\ DOMAIN handler[h].posts = handler[h].targets
            /\ handler[h].targets \subseteq DOMAIN handler[h].clients)

C2_Witness ==
    \E h \in Requests :
        /\ handler[h].pc = "done"
        /\ handler[h].targetRing = "prod"
        /\ "A" \in handler[h].targets /\ Len(handler[h].posts["A"]) > 0
        /\ "B" \in DOMAIN handler[h].clients /\ "B" \notin handler[h].targets
        /\ handler[h].clients["B"].Ring = "ppe"
        /\ handler[h].eventType \in Kinds(handler[h].clients["B"])

\* C3: when the allowlist has no entry for the sender at the lookup, the
\* handler returns with the 200 it wrote and launches no forwarder, whatever
\* the snapshot holds.
C3_NotAllowedNotForwarded ==
    /\ [][\A h \in Requests :
            (LooksUpRing(h) /\ handler[h].phoneNumber \notin DOMAIN numbers)
            => /\ handler'[h].pc = "done"
               /\ handler'[h].status = StatusOK /\ handler'[h].delivered
               /\ handler'[h].targets = {} /\ handler'[h].posts = Empty]_vars
    /\ [][\A h \in Requests :
            handler[h].pc = "done" => handler'[h] = handler[h]]_vars

C3_Witness ==
    \E h \in Requests :
        /\ handler[h].pc = "done" /\ ~handler[h].duplicate
        /\ handler[h].status = StatusOK /\ handler[h].delivered
        /\ handler[h].targetRing = ""
        /\ handler[h].phoneNumber \notin DOMAIN numbers
        /\ \E c \in DOMAIN handler[h].clients :
              handler[h].eventType \in Kinds(handler[h].clients[c])
        /\ handler[h].posts = Empty

\* C4: when the events have pairwise distinct message_ids, every client of
\* an event's snapshot with the sender's ring and the event's kind is posted
\* to, and exactly once if it answers the first attempt with 2xx.
C4_ExactlyOnePost ==
    (\A h1 \in Requests, h2 \in Requests :
        (h1 # h2 /\ PastDedup(h1) /\ PastDedup(h2))
        => handler[h1].messageID # handler[h2].messageID)
    => \A h \in Requests :
          (handler[h].pc = "done" /\ handler[h].status = StatusOK
           /\ handler[h].targetRing # "")
          => \A c \in Matched(h, handler[h].targetRing) :
                /\ c \in DOMAIN handler[h].posts
                /\ Len(handler[h].posts[c]) >= 1
                /\ handler[h].posts[c][1].ok => Len(handler[h].posts[c]) = 1

C4_Witness ==
    /\ \A h \in Requests :
          /\ handler[h].pc = "done" /\ handler[h].targets # {}
          /\ \A c \in handler[h].targets :
                Len(handler[h].posts[c]) = 1 /\ handler[h].posts[c][1].ok
    /\ \A h1 \in Requests, h2 \in Requests :
          h1 # h2 => handler[h1].messageID # handler[h2].messageID

\* C5: while a forwarder of an event is still in its retry loop, the 200
\* has been delivered to the gateway.
C5_DeliveredBeforeForwardersFinish ==
    \A h \in Requests :
        (handler[h].pc = "forward"
         /\ \E c \in handler[h].targets :
               Len(handler[h].posts[c]) >= 1 /\ CanPost(handler[h], c))
        => handler[h].delivered

\* C6: a forwarder makes at most 3 attempts, none after a 2xx answer, and
\* by the time the handler returns it made at least 1 and stopped only at a
\* 2xx answer or at the third attempt.
C6_AttemptsBounded ==
    \A h \in Requests : \A c \in DOMAIN handler[h].posts :
        LET p == handler[h].posts[c]
        IN  /\ Len(p) <= MaxAttempts
            /\ \A i \in 1..(Len(p) - 1) : ~p[i].ok
            /\ handler[h].pc = "done"
                  => Len(p) >= 1 /\ (p[Len(p)].ok \/ Len(p) = MaxAttempts)

C6_Witness ==
    \E h \in Requests : \E c \in DOMAIN handler[h].posts :
        /\ handler[h].pc = "done"
        /\ Len(handler[h].posts[c]) = MaxAttempts
        /\ ~handler[h].posts[c][1].ok /\ ~handler[h].posts[c][2].ok
        /\ handler[h].posts[c][MaxAttempts].ok

\* C7: when a client fails all its attempts for an event, every other
\* forwarder of that event still runs its own loop to the end, and the events
\* handled afterwards still launch a forwarder for every matched client.
C7_FailingClientIsolated ==
    \A h \in Requests : \A d \in DOMAIN handler[h].posts :
        GaveUp(h, d)
        => /\ handler[h].pc = "done"
                => \A c \in handler[h].targets \ {d} : CompleteRun(h, c)
           /\ \A h2 \in Requests \ {h} :
                (handler[h2].pc = "done" /\ handler[h2].targetRing # ""
                 /\ handler[h2].status = StatusOK)
                => /\ handler[h2].targets = Matched(h2, handler[h2].targetRing)
                   /\ \A c \in handler[h2].targets : CompleteRun(h2, c)

C7_Witness ==
    \E h \in Requests, h2 \in Requests :
        /\ h < h2
        /\ handler[h].pc = "done" /\ handler[h2].pc = "done"
        /\ handler[h].targets = {"A", "B"}
        /\ GaveUp(h, "B")
        /\ Len(handler[h].posts["A"]) = 1 /\ handler[h].posts["A"][1].ok
        /\ "B" \in handler[h2].targets
        /\ Len(handler[h2].posts["B"]) = 1 /\ handler[h2].posts["B"][1].ok

\* C8: while an id stays in the registry, a registration keeps its
\* RegisteredAt, never lowers its LastSeen, and every other field of the entry
\* is the one of the latest registration.
C8_ReRegistration ==
    /\ [][\A id \in DOMAIN clients \cap DOMAIN clients' :
            /\ clients'[id].RegisteredAt = clients[id].RegisteredAt
            /\ clients'[id].LastSeen >= clients[id].LastSeen]_vars
    /\ [](\A id \in DOMAIN clients :
            /\ id \in DOMAIN lastRegister
            /\ clients[id].ID = lastRegister[id].req.ID
            /\ clients[id].WebhookURL = lastRegister[id].req.WebhookURL
            /\ clients[id].Ring = lastRegister[id].req.Ring
            /\ clients[id].SmsReceived = lastRegister[id].req.SmsReceived
            /\ clients[id].SmsSent = lastRegister[id].req.SmsSent
            /\ clients[id].SmsDelivered = lastRegister[id].req.SmsDelivered
            /\ clients[id].SmsFailed = lastRegister[id].req.SmsFailed
            /\ clients[id].LastSeen = lastRegister[id].at
            /\ clients[id].RegisteredAt <= clients[id].LastSeen)

C8_Witness ==
    /\ "A" \in DOMAIN clients
    /\ clients["A"].RegisteredAt = 0
    /\ clients["A"].LastSeen = 2 * PrunePeriod
    /\ clients["A"].WebhookURL = "http://a2"
    /\ clients["A"].Ring = "ppe"
    /\ clients["A"].SmsSent

\* C9 as stated: no client of a snapshot has a LastSeen older than 60 s at
\* the time the snapshot is taken.
C9_NoStaleClientInSnapshot ==
    [][\A h \in Requests :
          TakesSnapshot(h)
          => \A c \in DOMAIN handler'[h].clients :
                ~(handler'[h].clients[c].LastSeen < now - PruneTTL)]_vars

\* C9, amended: no client of a snapshot had a LastSeen older than 60 s at
\* the latest prune pass, and only clients of the snapshot are posted to.
C9_NoClientStaleAtLastPrune ==
    /\ [][\A h \in Requests :
            TakesSnapshot(h)
            => \A c \in DOMAIN handler'[h].clients :
                  ~(handler'[h].clients[c].LastSeen
                        < (nextPrune - PrunePeriod) - PruneTTL)]_vars
    /\ [](\A h \in Requests : DOMAIN handler[h].posts \subseteq DOMAIN handler[h].clients)

C9_Witness ==
    /\ handler[1].pc = "forward"
    /\ "A" \in DOMAIN lastRegister /\ lastRegister["A"].at = TimeStep
    /\ "A" \notin DOMAIN handler[1].clients
    /\ "B" \in handler[1].targets
    /\ handler[1].clients["B"].LastSeen = PrunePeriod
    /\ Len(handler[1].posts["B"]) > 0

FromPrivateIP(addr) == addr.tcp /\ addr.ip = PrivateIP

\* C11: a number's ring never changes while the number stays in the
\* allowlist, in the mirror and in the store; and adding a number that is in
\* the allowlist fails, with the same ring or another, and leaves mirror and
\* store as they are.
C11_NoReassignment ==
    /\ [](\A n \in DOMAIN numbers : \A ring \in Rings :
            LET r == AddedNumber(numbers, db, n, ring, FALSE)
            IN  r.err # "" /\ r.numbers = numbers /\ r.db = db)
    /\ [][/\ \A n \in DOMAIN numbers \cap DOMAIN numbers' :
                numbers'[n] = numbers[n]
          /\ \A n \in DOMAIN db \cap DOMAIN db' : db'[n] = db[n]]_vars
    /\ [][\A addr \in AdminAddrs, n \in DOMAIN numbers, ring \in Rings :
            (FromPrivateIP(addr) /\ PostAllowlist(addr, n, ring, FALSE))
            => /\ api'.status = StatusBadRequest
               /\ numbers' = numbers /\ db' = db]_vars

C11_Witness ==
    /\ api.route = "POST /allowlist" /\ api.status = StatusBadRequest
    /\ FromPrivateIP(api.addr) /\ ~api.dbFails
    /\ api.req.number \in DOMAIN numbers
    /\ api.req.ring \in Rings
    /\ numbers[api.req.number] # api.req.ring
    /\ db = numbers

\* C12: the mirror changes only in an operation in which the store took the
\* same change, and an add or a remove whose store write fails answers an
\* error and leaves the mirror as it is.
C12_PersistThenMirror ==
    /\ [][numbers' # numbers => (db' # db /\ numbers' = db')]_vars
    /\ [][\A addr \in AdminAddrs, n \in AdminNumbers :
            /\ \A ring \in AdminRings :
                  (FromPrivateIP(addr) /\ PostAllowlist(addr, n, ring, TRUE))
                  => api'.status = StatusBadRequest /\ numbers' = numbers
            /\ (FromPrivateIP(addr) /\ DeleteAllowlist(addr, n, TRUE))
                  => /\ api'.status \in {StatusBadRequest,
                                         StatusInternalServerError}
                     /\ numbers' = numbers]_vars

C12_Witness ==
    /\ api.route = "DELETE /allowlist" /\ api.dbFails
    /\ api.status = StatusInternalServerError
    /\ api.req.number \in DOMAIN numbers
    /\ api.req.number \in DOMAIN db

\* C13: removing a number succeeds whether or not the number is in the
\* allowlist, changes nothing when it is not, and removing it a second time
\* leaves the mirror and the store of the first removal.
C13_RemoveIdempotent ==
    /\ [](\A n \in AdminNumbers :
            LET r1 == RemovedNumber(numbers, db, n, FALSE)
                r2 == RemovedNumber(r1.numbers, r1.db, n, FALSE)
            IN  /\ r1.err = "" /\ r2.err = ""
                /\ r2.numbers = r1.numbers /\ r2.db = r1.db
                /\ n \notin DOMAIN r1.numbers /\ n \notin DOMAIN r1.db
                /\ (n \notin DOMAIN numbers /\ n \notin DOMAIN db)
                      => (r1.numbers = numbers /\ r1.db = db))
    /\ [][\A addr \in AdminAddrs, n \in AdminNumbers \ {""} :
            (FromPrivateIP(addr) /\ DeleteAllowlist(addr, n, FALSE)
             /\ n \notin DOMAIN numbers)
            => /\ api'.status = StatusOK
               /\ numbers' = numbers /\ db' = db]_vars

C13_Witness ==
    /\ api.route = "DELETE /allowlist" /\ api.status = StatusOK
    /\ api.req.number = "12345"
    /\ numbers # Empty /\ db = numbers

\* The gateway holds exactly the four target registrations.
IsTarget(hooks) ==
    /\ Cardinality(hooks) = Cardinality(EventTypes)
    /\ {<<w.Event, w.URL>> : w \in hooks}
          = {<<"sms:" \o k, "http://127.0.0.1:" \o WebhookPort \o "/webhook/" \o k>> :
                k \in EventTypes}

\* C14: a reconciler tick all of whose gateway calls succeed leaves exactly
\* the four target registrations on the gateway, whatever it held before.
C14_TickRestoresTarget ==
    [][RepairWebhooks(FALSE, {}, {}) => IsTarget(webhooks')]_vars

\* C15: when the gateway holds one registration, for an expected event with
\* another URL than the expected one, a tick deletes it and registers the four
\* events, and the four target registrations remain.
C15_StrayRepaired ==
    [][\A w \in webhooks :
          ( /\ webhooks = {w}
            /\ \E k \in EventTypes :
                  /\ w.Event = "sms:" \o k
                  /\ w.URL # "http://127.0.0.1:" \o WebhookPort \o "/webhook/" \o k
            /\ RepairWebhooks(FALSE, {}, {}) )
          => /\ IsTarget(webhooks')
             /\ w \notin webhooks'
             /\ repair'.deleteCalls = {w.ID}
             /\ Cardinality(repair'.registerCalls) = Cardinality(EventTypes)]_vars

C15_Witness ==
    /\ repair.ran /\ repair.listed /\ ~repair.failed
    /\ Cardinality(repair.deleteCalls) = 1
    /\ Cardinality(repair.registerCalls) = Cardinality(EventTypes)
    /\ IsTarget(webhooks)

\* Some Admin API request arrives on a connection with local address addr.
AdminRequest(addr) ==
    \/ \E body \in AdminBodies : PostRegister(addr, body)
    \/ \E n \in AdminNumbers, ring \in AdminRings, f \in BOOLEAN :
          PostAllowlist(addr, n, ring, f)
    \/ \E n \in AdminNumbers, f \in BOOLEAN : DeleteAllowlist(addr, n, f)

\* C16: an Admin API request on a connection whose local address is not
\* private_ip is answered 403 and changes neither registry nor allowlist; one
\* on private_ip is not answered 403.
C16_PrivateIPOnly ==
    [][\A addr \in AdminAddrs :
          AdminRequest(addr)
          => IF addr.ip # PrivateIP
             THEN /\ api'.status = StatusForbidden
                  /\ clients' = clients /\ numbers' = numbers /\ db' = db
             ELSE api'.status # StatusForbidden]_vars

C16_Witness ==
    /\ api.route = "POST /register" /\ api.status = StatusForbidden
    /\ api.addr.ip = "192.168.1.5"
    /\ api.req.json /\ api.req.req.ID = "A"
    /\ "A" \notin DOMAIN clients

\* A POST /register body that satisfies the validation rules.
ValidRegister(body) ==
    /\ body.json
    /\ ByteLen(body.req.ID) >= 1 /\ ByteLen(body.req.ID) <= MaxIDLen
    /\ body.req.WebhookURL # ""
    /\ body.req.Ring \in Rings

\* A POST /allowlist query that satisfies the validation rules.
ValidAdd(number, ring) ==
    /\ ring \in Rings
    /\ ~PhoneShape(number).other
    /\ PhoneShape(number).digits \in 10..14
    /\ number \notin DOMAIN numbers

\* What a POST /register that was passed on does: rejected with 400 and no
\* change, or answered 200 with the client upserted.
RegisterOutcome(body) ==
    IF ValidRegister(body)
    THEN /\ api'.status = StatusOK
         /\ body.req.ID \in DOMAIN clients'
         /\ clients'[body.req.ID].WebhookURL = body.req.WebhookURL
         /\ clients'[body.req.ID].Ring = body.req.Ring
    ELSE /\ api'.status = StatusBadRequest
         /\ clients' = clients /\ numbers' = numbers /\ db' = db

C18_KindsDoNotCollide ==
    /\ \A k1 \in EventTypes, k2 \in EventTypes, id \in {"m1", "m2"} :
          LET marked == IsSeenAndMark(seen, DedupKey(k1, id), now).cache
          IN  k1 # k2
              => IsSeenAndMark(marked, DedupKey(k2, id), now).seen
                    = (DedupKey(k2, id) \in DOMAIN seen)
    /\ \A h1 \in Requests, h2 \in Requests :
          ( /\ h1 # h2
            /\ PastDedup(h1) /\ PastDedup(h2)
            /\ handler[h1].messageID = handler[h2].messageID
            /\ handler[h1].messageID # ""
            /\ handler[h1].eventType # handler[h2].eventType )
          => /\ ~handler[h1].duplicate
             /\ (handler[h1].pc = "done" /\ handler[h1].targetRing # "")
                   => /\ handler[h1].targets = Matched(h1, handler[h1].targetRing)
                      /\ \A c \in handler[h1].targets : CompleteRun(h1, c)

C18_Witness ==
    \E h1 \in Requests, h2 \in Requests :
        /\ handler[h1].eventType = "received" /\ handler[h2].eventType = "sent"
        /\ handler[h1].messageID = "m1" /\ handler[h2].messageID = "m1"
        /\ handler[h1].pc = "done" /\ handler[h2].pc = "done"
        /\ "B" \in handler[h1].targets /\ "B" \in handler[h2].targets
        /\ Len(handler[h1].posts["B"]) = 1 /\ handler[h1].posts["B"][1].ok
        /\ Len(handler[h2].posts["B"]) = 1 /\ handler[h2].posts["B"][1].ok

\* C19 as stated: every event that is answered 200 has a non-empty
\* message_id and a non-empty phone_number.
C19_AcceptedHasBothIds ==
    \A h \in Requests :
        handler[h].status = StatusOK
        => handler[h].body.messageId # "" /\ handler[h].body.phoneNumber # ""

\* C19, amended: an event is answered 400 exactly when its body does not
\* parse; an event without message_id is answered 200 and leaves no key in
\* the dedup cache, and one without phone_number is answered 200 and is
\* forwarded to nobody.
C19_OnlyParseErrorsRejected ==
    /\ \A h \in Requests :
          /\ handler[h].pc = "done"
                => handler[h].status =
                      (IF handler[h].body.json /\ handler[h].body.typed
                       THEN StatusOK ELSE StatusBadRequest)
          /\ (handler[h].pc # "idle" /\ handler[h].body.messageId = "")
                => ~handler[h].duplicate
          /\ (handler[h].pc # "idle" /\ handler[h].body.phoneNumber = "")
                => handler[h].targets = {} /\ handler[h].posts = Empty
    /\ \A key \in DOMAIN seen :
          \E h \in Requests :
              /\ handler[h].body.messageId # ""
              /\ key = handler[h].eventType \o "-" \o handler[h].body.messageId

C19_Witness ==
    /\ \E h \in Requests :
          /\ handler[h].pc = "done" /\ handler[h].status = StatusOK
          /\ handler[h].body.messageId = ""
          /\ \E c \in handler[h].targets :
                Len(handler[h].posts[c]) = 1 /\ handler[h].posts[c][1].ok
    /\ \E h \in Requests :
          /\ handler[h].pc = "done" /\ handler[h].status = StatusOK
          /\ handler[h].body.phoneNumber = ""
          /\ handler[h].clients # Empty /\ numbers # Empty
          /\ handler[h].posts = Empty

\* C20: the body of every attempt, the first and the retries, is the body
\* the handler read from the ingress request.
C20_BodyPassedThrough ==
    \A h \in Requests : \A c \in DOMAIN handler[h].posts :
        \A i \in 1..Len(handler[h].posts[c]) :
            /\ handler[h].posts[c][i].body = handler[h].body
            /\ handler[h].posts[c][i].body.json

C20_Witness ==
    \E h \in Requests : \E c \in DOMAIN handler[h].posts :
        /\ Len(handler[h].posts[c]) = MaxAttempts
        /\ ~handler[h].posts[c][1].ok
        /\ handler[h].posts[c][MaxAttempts].body = handler[h].body
        /\ handler[h].body = Body(TRUE, TRUE, "m1", "+15551112222")


\* Every event of the target set is registered with its expected URL.
FourPresent(hooks) ==
    \A k \in EventTypes :
       \E w \in hooks : w.Event = "sms:" \o k /\ w.URL = ExpectedURL("sms:" \o k)

\* C30: a reconciler tick whose list_hooks call fails issues no delete_hook
\* and no register_hook call, leaves the gateway and the supervisor as they
\* were (the failure is only logged), and the tick after it, when its calls
\* succeed, lists, repairs and leaves every expected registration in place.
C30_ListFailureSkipsTick ==
    [][ /\ \A d \in {{}, 1..MaxWebhooks}, r \in {{}, {"sms:failed"}} :
             RepairWebhooks(TRUE, d, r)
                => /\ repair'.deleteCalls = {}
                   /\ repair'.registerCalls = {}
                   /\ repair'.failed
                   /\ webhooks' = webhooks
                   /\ sup' = sup /\ sup.ticker /\ sup.pc = "running"
        /\ (repair.ran /\ ~repair.listed /\ RepairWebhooks(FALSE, {}, {}))
                => /\ repair'.listed /\ ~repair'.failed
                   /\ repair'.deleteCalls = {w.ID : w \in WrongURL(webhooks)}
                   /\ FourPresent(webhooks') ]_vars

C30_Witness ==
    /\ repair.ran /\ ~repair.listed /\ repair.failed
    /\ repair.deleteCalls = {} /\ repair.registerCalls = {}
    /\ WrongURL(webhooks) # {}
    /\ ~FourPresent(webhooks)
    /\ sup.ticker

\* The event of h was parsed and carries no message_id.
EmptyID(h) ==
    /\ handler[h].pc # "idle"
    /\ handler[h].body.json /\ handler[h].body.typed
    /\ handler[h].body.messageId = ""

\* C29: the duplicate check of an event with an empty message_id leaves the
\* dedup cache as it is and lets the event pass, whatever the cache holds;
\* such an event is answered 200, is never a duplicate, and once it is past
\* the allowlist lookup with a ring its fan-out goes to the subscribers of
\* its kind and ring in its snapshot, also when another event of the same
\* kind with an empty message_id was handled before.
C29_EmptyIdBypassesDedup ==
    /\ [][\A h \in Requests :
            (EmptyID(h) /\ CheckDuplicate(h))
               => /\ seen' = seen
                  /\ handler'[h].pc = "respond"]_vars
    /\ [](\A h \in Requests :
            EmptyID(h)
               => /\ ~handler[h].duplicate
                  /\ handler[h].messageID = ""
                  /\ handler[h].pc = "done" => handler[h].status = StatusOK
                  /\ handler[h].targetRing # ""
                        => handler[h].targets
                              = Matched(h, handler[h].targetRing))

C29_Witness ==
    /\ \A h \in Requests :
          /\ EmptyID(h) /\ handler[h].pc = "done"
          /\ handler[h].eventType = "received"
          /\ handler[h].targets = {"A"}
          /\ Len(handler[h].posts["A"]) = 1 /\ handler[h].posts["A"][1].ok
    /\ seen = Empty

\* The dedup key of the event of h is in the cache, or the event has none.
Marked(h, cache) ==
    handler[h].messageID # ""
       => DedupKey(handler[h].eventType, handler[h].messageID) \in DOMAIN cache

\* C24: the steps of one accepted event come in the order parse, duplicate
\* check and mark, write of the 200, snapshot, filters, fan-out: the check
\* runs on a parsed body before any answer is written and marks the key; the
\* 200 is written when the key is marked and no snapshot was taken; the
\* snapshot is taken after the 200 was written and before any forwarder
\* exists; every attempt of a forwarder is made after the snapshot was
\* filtered by kind and ring, to a subscriber the filters left.
C24_StepOrder ==
    [][\A h \in Requests :
          /\ (handler[h].pc = "dedup" /\ handler'[h] # handler[h])
                => /\ handler[h].body.json /\ handler[h].body.typed
                   /\ handler[h].status = 0
                   /\ handler[h].clients = Empty
                   /\ Marked(h, seen')
          /\ (handler[h].pc = "respond" /\ handler'[h] # handler[h])
                => /\ Marked(h, seen)
                   /\ handler[h].status = 0 /\ handler'[h].status = StatusOK
                   /\ handler[h].clients = Empty /\ handler'[h].clients = Empty
          /\ TakesSnapshot(h)
                => /\ handler[h].status = StatusOK
                   /\ Marked(h, seen)
                   /\ handler[h].targets = {} /\ handler[h].posts = Empty
          /\ LooksUpRing(h)
                => /\ handler[h].clients = handler'[h].clients
                   /\ handler[h].posts = Empty
                   /\ \A c \in handler'[h].targets : handler'[h].posts[c] = <<>>
          /\ handler'[h].posts # handler[h].posts /\ handler[h].pc # "ring"
                => /\ handler[h].pc = "forward"
                   /\ handler[h].status = StatusOK
                   /\ handler[h].targetRing # ""
                   /\ handler[h].targets = Matched(h, handler[h].targetRing)
                   /\ DOMAIN handler'[h].posts = handler[h].targets]_vars

C24_Witness ==
    \E h \in Requests :
        /\ handler[h].pc = "done" /\ ~handler[h].duplicate
        /\ handler[h].messageID = "m1"
        /\ "received-m1" \in DOMAIN seen
        /\ handler[h].status = StatusOK
        /\ handler[h].clients # Empty
        /\ handler[h].targets = {"A"}
        /\ Len(handler[h].posts["A"]) = 2 /\ handler[h].posts["A"][2].ok

\* How many of n calls of IsSeenAndMark with the same key return false; the
\* mutex of the cache makes concurrent calls run one after the other.
RECURSIVE UnseenReturns(_, _, _, _)
UnseenReturns(cache, key, t, n) ==
    IF n = 0
    THEN 0
    ELSE LET r == IsSeenAndMark(cache, key, t)
         IN  (IF r.seen THEN 0 ELSE 1) + UnseenReturns(r.cache, key, t, n - 1)

\* The keys of the events of the dedup cache specification.
DedupKeys == {DedupKey(e[1], e[2].messageId) : e \in DedupEnvelopes}

\* C26: a call of seen_and_mark with a key that is in the cache returns true
\* and leaves the cache as it is; a call with a key that is not returns false
\* and adds just that key, with the time of the call; of any number of calls
\* with the same absent key exactly one returns false.
C26_SeenAndMarkAtomic ==
    /\ [][\A h \in Requests :
            (handler[h].pc = "dedup" /\ CheckDuplicate(h))
               => LET key == DedupKey(handler[h].eventType, handler[h].messageID)
                  IN  IF key \in DOMAIN seen
                      THEN handler'[h].duplicate /\ seen' = seen
                      ELSE /\ ~handler'[h].duplicate
                           /\ DOMAIN seen' = DOMAIN seen \cup {key}
                           /\ seen'[key] = now
                           /\ \A k \in DOMAIN seen : seen'[k] = seen[k]]_vars
    /\ [](\A key \in DedupKeys, n \in 1..MaxCalls :
            /\ UnseenReturns(seen, key, now, n)
                  = (IF key \in DOMAIN seen THEN 0 ELSE 1)
            /\ key \in DOMAIN seen
                  => /\ IsSeenAndMark(seen, key, now).seen
                     /\ IsSeenAndMark(seen, key, now).cache = seen)

\* The request that arrived first lost the race for the key to the second.
C26_Witness ==
    /\ handler[1].duplicate /\ handler[1].pc = "done"
    /\ ~handler[2].duplicate /\ handler[2].pc = "done"
    /\ handler[1].messageID = handler[2].messageID
    /\ handler[1].eventType = handler[2].eventType
    /\ DedupKey(handler[2].eventType, handler[2].messageID) \in DOMAIN seen
    /\ seen[DedupKey(handler[2].eventType, handler[2].messageID)] < now

\* C27: a call of Cleanup with a TTL removes the entries that were first
\* seen more than the TTL ago and no other, and leaves the first-seen time of
\* every entry it keeps; after it, seen_and_mark reports a removed key as
\* unseen and a kept key as seen.
C27_SweepExact ==
    [][\A ttl \in DedupTTLs :
          Cleanup(ttl)
             => /\ DOMAIN seen' \subseteq DOMAIN seen
                /\ \A k \in DOMAIN seen :
                      IF now - seen[k] > ttl
                      THEN /\ k \notin DOMAIN seen'
                           /\ ~IsSeenAndMark(seen', k, now).seen
                      ELSE /\ k \in DOMAIN seen'
                           /\ seen'[k] = seen[k]
                           /\ IsSeenAndMark(seen', k, now).seen]_vars

\* Two events with the same key both passed the duplicate check, the second
\* one after a sweep that removed the key.
C27_Witness ==
    /\ \A h \in Requests :
          /\ handler[h].pc = "done" /\ ~handler[h].duplicate
          /\ handler[h].messageID = "m1"
    /\ DOMAIN seen = {"received-m1"}
    /\ seen["received-m1"] >= 2 * TimeStep
    /\ now - seen["received-m1"] = TimeStep

C25_FanoutUsesSnapshot ==
    /\ [][\A h \in Requests :
            /\ handler[h].pc \in {"ring", "forward", "done"}
                  => handler'[h].clients = handler[h].clients
            /\ LooksUpRing(h) /\ handler'[h].targetRing # ""
                  => handler'[h].targets = Matched(h, handler'[h].targetRing)
            /\ handler[h].pc \in {"forward", "done"}
                  => /\ handler'[h].targets = handler[h].targets
                     /\ handler'[h].targetRing = handler[h].targetRing
                     /\ DOMAIN handler'[h].posts = handler[h].targets]_vars
    /\ [](\A h \in Requests : \A c \in DOMAIN handler[h].posts :
             /\ c \in DOMAIN handler[h].clients
             /\ handler[h].clients[c].Ring = handler[h].targetRing
             /\ \A i \in 1..Len(handler[h].posts[c]) :
                   handler[h].posts[c][i].url
                      = handler[h].clients[c].WebhookURL
                           \o "/" \o handler[h].eventType)

\* The event went to A at the URL of the snapshot, with a retry, although A
\* re-registered with another URL and ring and B registered after the
\* snapshot, and both were pruned since.
C25_Witness ==
    /\ handler[1].pc = "done"
    /\ DOMAIN handler[1].clients = {"A"}
    /\ handler[1].targets = {"A"}
    /\ Len(handler[1].posts["A"]) = 2
    /\ handler[1].posts["A"][2].url = "http://a/received"
    /\ handler[1].posts["A"][2].ok
    /\ "A" \in DOMAIN lastRegister /\ "B" \in DOMAIN lastRegister
    /\ lastRegister["A"].req.WebhookURL = "http://a2"
    /\ lastRegister["A"].req.Ring = "ppe"
    /\ clients = Empty

\* main called SetupWebhooks or started a goroutine or a listener.
StartedAnything ==
    \/ sup.setup # "none"
    \/ sup.listeners # {}
    \/ sup.ticker
    \/ sup.pruner

\* C23 as stated: webhooks are installed and listeners started only after a
\* probe succeeded, and a startup that went on had its successful probe
\* within the 10 s window; otherwise the process exited without installing
\* a webhook or starting a listener.
C23_HealthyWithinWindow ==
    /\ StartedAnything => sup.healthy
    /\ sup.healthy => sup.healthyAt <= HealthCheckRetry
    /\ (sup.pc = "fatal" /\ ~sup.healthy) => ~StartedAnything

\* C23, amended: webhooks are installed and listeners started only after a
\* probe succeeded; the health loop goes on only while the last failed probe
\* ended within the 10 s; the process exits from the loop only at a failed
\* probe that ended after more than 10 s, and then it has installed no
\* webhook and started no goroutine and no listener, and has made no delete
\* and no register call on the gateway.
C23_FatalAfterWindow ==
    /\ StartedAnything => sup.healthy
    /\ sup.pc # "probe" => (sup.healthy \/ sup.pc = "fatal")
    /\ sup.pc = "probe"
          => /\ ~sup.healthy
             /\ sup.elapsed <= HealthCheckRetry + ProbeInterval
    /\ (sup.pc = "fatal" /\ ~sup.healthy)
          => /\ sup.elapsed > HealthCheckRetry
             /\ ~StartedAnything
             /\ sup.deleted = {} /\ sup.registered = {}
             /\ repair = NoRepair

C23_Witness ==
    /\ sup.pc = "fatal" /\ ~sup.healthy
    /\ sup.elapsed > HealthCheckRetry
    /\ ~gatewayUp
    /\ webhooks = {Webhook(1, "sms:received", "http://wrong")}
    /\ sup.listeners = {}

\* The i-th shutdown step is done.
Did(step) == \E i \in 1..Len(sup.log) : sup.log[i] = step

\* C22: after the signal main stops the reconciler ticker, stops the
\* pruner, shuts the Admin API listener down, shuts the ingress listener
\* down and runs the webhook cleanup, in this order and each once; when the
\* cleanup starts both listeners are shut down and both goroutines stopped;
\* once the cleanup is done main can return whether or not it failed, and
\* the process exits only after all five steps.
C22_ShutdownOrder ==
    /\ [](\A i \in 1..Len(sup.log) :
             sup.log[i] = <<"stopAutoRepair", "stopPruner", "shutdownAPI",
                            "shutdownWebhook", "cleanup">>[i])
    /\ [](Len(sup.log) <= 5 /\ (sup.pc \in {"probe", "install", "start",
                                            "running", "fatal"}
                                   => sup.log = <<>>))
    /\ [](Did("stopAutoRepair") <=> (sup.pc \in {"shutdown", "exited"}
                                        /\ ~sup.ticker))
    /\ [](Did("stopPruner") => ~sup.pruner)
    /\ [](Did("cleanup") => (ENABLED Exit \/ sup.pc = "exited"))
    /\ [](sup.pc = "exited" => Did("cleanup"))
    /\ [][(~Did("cleanup") /\ Did("cleanup")')
             => /\ sup.listeners = {} /\ ~sup.ticker /\ ~sup.pruner
                /\ Did("shutdownAPI") /\ Did("shutdownWebhook")
                /\ sup'.pc = "shutdown"]_vars

\* The process exited although its cleanup could not list the registrations
\* and left them on the gateway.
C22_Witness ==
    /\ sup.pc = "exited"
    /\ "cleanup" \in sup.errors /\ "shutdownAPI" \in sup.errors
    /\ FourPresent(webhooks)
    /\ Len(sup.log) = 5
    /\ sup.listeners = {}

\* C21: an outage of the gateway changes nothing in the supervisor, which
\* leaves its running state only on a signal; GET /health from the private
\* address answers 503 while the gateway is unreachable and 200 while it is
\* reachable; a reconciler tick during the outage makes no delete and no
\* register call and leaves the registrations as they are; a tick while the
\* gateway is reachable leaves the four expected registrations, and no
\* registration with another URL, on the gateway; and while the daemon runs
\* and the gateway stays reachable, the four expected registrations are
\* eventually on the gateway.
C21_OutageSurvived ==
  /\ ((sup.pc = "running" /\ gatewayUp)
        ~> (FourPresent(webhooks) \/ ~gatewayUp \/ sup.pc # "running"))
  /\
    [][ /\ gatewayUp' # gatewayUp => sup' = sup
        /\ (sup.pc = "running" /\ sup' # sup)
              => sup'.pc = "shutdown" /\ sup'.log = <<>>
        /\ \A addr \in AdminAddrs :
              (GetHealth(addr) /\ addr.ip = PrivateIP)
                 => api'.status = (IF gatewayUp THEN 200 ELSE 503)
        /\ (sup.ticker /\ ~gatewayUp /\ RepairWebhooks(TRUE, {}, {}))
              => /\ webhooks' = webhooks
                 /\ repair'.deleteCalls = {} /\ repair'.registerCalls = {}
                 /\ sup' = sup
        /\ (sup.ticker /\ gatewayUp /\ RepairWebhooks(FALSE, {}, {}))
              => /\ FourPresent(webhooks')
                 /\ WrongURL(webhooks') = {}
                 /\ Cardinality(webhooks') = Cardinality(EventTypes)
                 /\ ~repair'.failed ]_vars

\* The gateway was unreachable (the last GET /health was answered 503), is
\* reachable again, and a tick registered what the gateway had lost.
C21_Witness ==
    /\ sup.pc = "running"
    /\ api.route = "GET /health" /\ api.status = 503
    /\ gatewayUp
    /\ repair.ran /\ repair.listed /\ ~repair.failed
    /\ Cardinality(repair.registerCalls) >= 2
    /\ FourPresent(webhooks)

\* The events of the target set.
TargetEvents == {"sms:" \o k : k \in EventTypes}

\* C31: when SetupWebhooks returns success the gateway holds exactly the
\* four target registrations, every registration it held before was deleted,
\* also one with the expected URL, and all four events were registered; it
\* returns success exactly when the list call, the delete call of every
\* registration held before and the register calls of the four events all
\* succeeded, and main goes on only then.
C31_InstallExact ==
    [][\A d \in {{}, 1..MaxWebhooks}, r \in {{}, {"sms:failed"}} :
          SetupWebhooks(d, r)
             => /\ sup'.setup = "ok"
                   <=> /\ gatewayUp
                       /\ d \cap {w.ID : w \in webhooks} = {}
                       /\ r \cap TargetEvents = {}
                /\ sup'.setup = "ok"
                      => /\ IsTarget(webhooks')
                         /\ sup'.deleted = {w.ID : w \in webhooks}
                         /\ sup'.registered = TargetEvents
                         /\ sup'.pc = "start"
                /\ sup'.setup # "ok"
                      => sup'.setup = "failed" /\ sup'.pc = "fatal"]_vars

\* The install succeeded on a gateway that held a stray registration and one
\* with an expected URL: both were deleted.
C31_Witness ==
    /\ sup.setup = "ok" /\ sup.pc = "start"
    /\ sup.deleted = {1, 2}
    /\ sup.registered = TargetEvents
    /\ IsTarget(webhooks)

\* C32: when main exited because SetupWebhooks failed, the gateway holds
\* none of the registrations that SetupWebhooks made before it failed.
C32_NoPartialState ==
    (sup.pc = "fatal" /\ sup.setup = "failed")
       => \A w \in webhooks :
             ~(w.Event \in sup.registered /\ w.URL = ExpectedURL(w.Event))

\* C33: a prune pass removes the subscribers whose last_seen is more than
\* 60 s before the pass and no other, and leaves those it keeps as they
\* were; a subscriber that registered or re-registered at most 60 s before
\* the pass stays, whatever else the pass removes.
C33_PruneExact ==
    [][nextPrune' # nextPrune
          => /\ DOMAIN clients' \subseteq DOMAIN clients
             /\ \A id \in DOMAIN clients :
                   IF now' - clients[id].LastSeen > 60
                   THEN id \notin DOMAIN clients'
                   ELSE id \in DOMAIN clients' /\ clients'[id] = clients[id]
             /\ \A id \in DOMAIN lastRegister :
                   now' - lastRegister[id].at <= 60 => id \in DOMAIN clients']_vars

\* A pass removed A and kept B, which was last seen exactly 60 s before it.
C33_Witness ==
    /\ now = nextPrune - PrunePeriod
    /\ "A" \in DOMAIN lastRegister /\ "A" \notin DOMAIN clients
    /\ now - lastRegister["A"].at = 60 + PrunePeriod
    /\ "B" \in DOMAIN clients
    /\ now - clients["B"].LastSeen = 60

\* C34: Stop returns only when the pruner goroutine has exited; the
\* goroutine never runs again once it has exited, so no prune pass holds the
\* mutex or changes the registry after Stop returned; and a Stop that was
\* called returns in the end, also when a prune pass or a registration was
\* in progress at the call.
C34_StopDrainsPruner ==
    /\ [](cm.stop = "returned" => cm.pruner = "exited" /\ cm.mu # "prune")
    /\ [][cm.pruner = "exited" => cm'.pruner = "exited"]_vars
    /\ [][cm.stop = "returned"
             => cm'.stop = "returned"
                /\ DOMAIN clients \subseteq DOMAIN clients']_vars
    /\ (cm.stop = "waiting" ~> cm.stop = "returned")

\* Stop returned; when it was called a prune pass was waiting for the mutex
\* that a registration held.
C34_Witness ==
    /\ cm.stop = "returned" /\ cm.pruner = "exited"
    /\ cm.at = [pruner |-> "lock", mu |-> "register"]
    /\ clients # Empty

\* C35: no lock is held while a durable-store write is in progress, and a
\* handler that is about to look a sender up in the allowlist does not find
\* the allowlist lock held for a store write.
C35_NoLockAcrossSuspension ==
    /\ amu.exec => amu.holder = ""
    /\ \A h \in DOMAIN handler :
          handler[h].pc = "ring" => ~(amu.exec /\ amu.holder # "")

\* C36: whatever the gateway lists and whichever call fails, a reconciler
\* tick does not end the process: the daemon is still running and its
\* ticker, pruner and listeners are still there.
C36_TickKeepsRunning ==
    repair.ran => sup.pc = "running" /\ sup.ticker /\ sup.listeners # {}

\* The event of h passed the duplicate check, and another request for the
\* same (kind, message_id) is at its own check.
FirstOf(h1, h2) ==
    /\ h1 # h2
    /\ PastDedup(h1) /\ ~handler[h1].duplicate
    /\ handler[h1].messageID # ""
    /\ handler[h2].pc = "dedup"
    /\ handler[h2].eventType = handler[h1].eventType
    /\ handler[h2].messageID = handler[h1].messageID

\* C37: the key of an event that passed the duplicate check stays marked
\* whatever becomes of the event (dropped at the allowlist, no subscriber
\* left by the filters, every attempt failed), so the check of a redelivery
\* with the same (kind, message_id) reports a duplicate and the redelivery
\* is answered 200 and returns without a snapshot or a forwarder, whatever
\* the allowlist and the registry hold by then.
C37_MarkedWhateverFollows ==
    /\ [](\A h \in Requests :
            (PastDedup(h) /\ ~handler[h].duplicate) => Marked(h, seen))
    /\ [][\A h1 \in Requests, h2 \in Requests :
            (FirstOf(h1, h2) /\ CheckDuplicate(h2))
               => /\ handler'[h2].duplicate
                  /\ handler'[h2].pc = "done"
                  /\ handler'[h2].status = StatusOK
                  /\ handler'[h2].clients = Empty
                  /\ handler'[h2].targets = {}
                  /\ handler'[h2].posts = Empty
                  /\ seen' = seen]_vars

\* The first event was dropped because its sender was not in the allowlist;
\* the sender was added and a subscriber registered, and the redelivery was
\* still a duplicate.
C37_Witness ==
    /\ handler[1].pc = "done" /\ ~handler[1].duplicate
    /\ handler[1].messageID = "m1" /\ handler[1].phoneNumber = "+15551112222"
    /\ handler[1].targetRing = "" /\ handler[1].posts = Empty
    /\ handler[1].clients = Empty
    /\ "+15551112222" \in DOMAIN numbers /\ "A" \in DOMAIN clients
    /\ handler[2].pc = "done" /\ handler[2].duplicate
    /\ handler[2].messageID = "m1"
    /\ handler[2].eventType = handler[1].eventType

\* The request of h was answered 400.
Rejected(h) == handler[h].pc = "done" /\ handler[h].status = StatusBadRequest

\* C38: the step that answers a request with 400 leaves the dedup cache,
\* the registry, the allowlist and its table as they are and the request
\* never has a snapshot, a target or a forwarder; and the first well-formed
\* event with the kind and the message id of a rejected body passes the
\* duplicate check.
C38_RejectedLeavesNoTrace ==
    /\ [][\A h \in Requests :
            (handler[h].pc = "idle" /\ handler'[h].status = StatusBadRequest)
               => /\ seen' = seen /\ clients' = clients
                  /\ numbers' = numbers /\ db' = db
                  /\ Rejected(h)']_vars
    /\ [](\A h \in Requests :
            handler[h].status = StatusBadRequest
               => /\ Rejected(h) /\ ~handler[h].duplicate
                  /\ handler[h].clients = Empty
                  /\ handler[h].targets = {} /\ handler[h].posts = Empty)
    /\ [][\A h1 \in Requests, h2 \in Requests :
            ( /\ Rejected(h1) /\ handler[h1].body.messageId # ""
              /\ handler[h2].pc = "dedup"
              /\ handler[h2].eventType = handler[h1].eventType
              /\ handler[h2].messageID = handler[h1].body.messageId
              /\ \A h3 \in Requests \ {h2} :
                    ~(PastDedup(h3) /\ handler[h3].messageID = handler[h2].messageID
                                    /\ handler[h3].eventType = handler[h2].eventType)
              /\ CheckDuplicate(h2) )
               => ~handler'[h2].duplicate /\ handler'[h2].pc = "respond"]_vars

\* A body with message id m1 was rejected, and the well-formed event with
\* m1 that came after it was delivered to the subscriber.
C38_Witness ==
    /\ Rejected(1) /\ handler[1].body.messageId = "m1"
    /\ handler[2].pc = "done" /\ handler[2].messageID = "m1"
    /\ handler[2].eventType = handler[1].eventType
    /\ ~handler[2].duplicate /\ handler[2].targets = {"A"}
    /\ Len(handler[2].posts["A"]) = 1 /\ handler[2].posts["A"][1].ok
    /\ DOMAIN seen = {"received-m1"}

\* C39: whenever the manager exists and no add, remove or load is running
\* in it, the mirror is the table: the same numbers with the same rings.
C39_MirrorEqualsStore ==
    amu.holder = ""
       => /\ DOMAIN numbers = DOMAIN db
          /\ \A n \in DOMAIN db : numbers[n] = db[n]

\* Both numbers are in the table and the mirror, on different rings.
C39_Witness ==
    /\ amu.holder = ""
    /\ DOMAIN db = Phones /\ DOMAIN numbers = Phones
    /\ \E n \in Phones, m \in Phones : db[n] # db[m]

\* The registrations of the proxy among hooks.
OwnHooks(hooks) == {w \in hooks : w.URL = ExpectedURL(w.Event)}

\* C40: when the process has exited after a cleanup whose list and deletes
\* all succeeded, the gateway holds no registration of the proxy.
C40_CleanAtExit ==
    (sup.pc = "exited" /\ Did("cleanup") /\ "cleanup" \notin sup.errors)
       => OwnHooks(webhooks) = {}

====
